---- MODULE Spec2Model ----
(***************************************************************************)
(* BLE security scanner: the device registry of the two firmware variants  *)
(* (src/ble-scanner.ino, the ESP32-3248S035C build, called CYD below, and  *)
(* src/heltec-ble-scanner/build/sketch/heltec-ble-scanner.ino.cpp, called  *)
(* HELTEC), the allow-list, and the radio callback that feeds them.        *)
(*                                                                         *)
(* Strings that the code takes apart (addresses, advertised names, UUID    *)
(* texts) are sequences of one-character strings; labels that the code     *)
(* only compares (device type, manufacturer) are TLA+ strings.             *)
(*                                                                         *)
(* Time is the value of millis(), an unsigned long. The model scales the   *)
(* 32-bit counter and the timeouts down together: UL_MOD stands for 2^32,  *)
(* and one model time unit stands for 30 s of the CYD build.               *)
(***************************************************************************)
EXTENDS Integers, Sequences, FiniteSets, TLC

\* ------------------------------------------------------------------------
\* Program constants (scaled)
\* ------------------------------------------------------------------------

\* devices[MAX_TRACKED_DEVICES]: 50 (CYD), 30 (HELTEC); scaled to 3.
MAX_TRACKED_DEVICES == 3

\* whitelist[50], and the literal 50 in loadWhitelist/addToWhitelist; scaled.
WHITELIST_MAX == 2

\* 60000 ms (CYD), 120000 ms (HELTEC): two model time units.
DEVICE_TIMEOUT == 2

\* 300000 ms; scaled so that DEVICE_TIMEOUT < NEW_DEVICE_THRESHOLD.
NEW_DEVICE_THRESHOLD == 3

\* unsigned long is 32 bits wide on the ESP32: 2^32, scaled to 2^4.
UL_MOD == 16

\* 10000 ms (CYD), 15000 ms (HELTEC): two model time units.
SCAN_INTERVAL == 2

\* The most devices one server post carries (HELTEC): 10 of 30 tracked in
\* the build, 2 of 3 here.
POST_MAX == 2

\* SCAN_DURATION * 1000 + 500 ms, the scan and the margin loop() waits
\* after it: 5500 ms in both builds, one model time unit.
SCAN_DURATION == 1

\* The capacity of a client's send channel: make(chan []byte, 256) in
\* HandleWebSocket, scaled to 1.
SEND_CAP == 1

\* The capacity of hub.broadcast: make(chan []byte, 256) in newHub, scaled
\* to 1.
BROADCAST_CAP == 1

\* ------------------------------------------------------------------------
\* Bounds of the model
\* ------------------------------------------------------------------------

\* How far millis() advances within one behaviour.
MaxElapsed == 3

\* The largest single advance of millis() between two handlers.
MaxStep == 2

\* How far millis() advances within one behaviour of SpecAllowlist.
AllowlistElapsed == 3

\* SpecAllowlist adds to the allow-list while it holds fewer entries.
AllowlistFill == 1

\* How far millis() advances within one behaviour of SpecMerge.
MergeElapsed == 3

\* How far millis() advances within one behaviour of SpecRace.
RaceElapsed == 3

\* How far millis() advances within one behaviour of SpecLoop.
LoopElapsed == 4

\* The longest the sweep and the publication of one scan cycle take.
MaxWork == 1

\* How far millis() advances within one behaviour of SpecTrust.
TrustElapsed == 3

\* How far millis() advances within one behaviour of SpecClassify.
ClassifyElapsed == 3

\* How far millis() advances within one behaviour of SpecLoad.
LoadElapsed == 3

\* How far millis() advances within one behaviour of SpecNames.
NamesElapsed == 3

\* ------------------------------------------------------------------------
\* Arduino String operations
\* ------------------------------------------------------------------------

Lowers == <<"a","b","c","d","e","f","g","h","i","j","k","l","m",
            "n","o","p","q","r","s","t","u","v","w","x","y","z">>

Uppers == <<"A","B","C","D","E","F","G","H","I","J","K","L","M",
            "N","O","P","Q","R","S","T","U","V","W","X","Y","Z">>

\* toupper / tolower on the letters, as tables
UpperOf == [c \in { Lowers[k] : k \in 1..26 } |->
               Uppers[CHOOSE k \in 1..26 : Lowers[k] = c]]

LowerOf == [c \in { Uppers[k] : k \in 1..26 } |->
               Lowers[CHOOSE k \in 1..26 : Uppers[k] = c]]

UpperChar(c) == IF c \in DOMAIN UpperOf THEN UpperOf[c] ELSE c

LowerChar(c) == IF c \in DOMAIN LowerOf THEN LowerOf[c] ELSE c

\* String::toUpperCase / String::toLowerCase
toUpperCase(s) == [k \in 1..Len(s) |-> UpperChar(s[k])]

toLowerCase(s) == [k \in 1..Len(s) |-> LowerChar(s[k])]

\* s occurs in t at the 0-based offset p
OccursAt(t, s, p) ==
    /\ p + Len(s) <= Len(t)
    /\ \A k \in 1..Len(s) : t[p + k] = s[k]

\* String::indexOf: the first offset of s in t, or -1
indexOf(t, s) ==
    IF Len(s) > Len(t) THEN -1
    ELSE IF \E p \in 0..Len(t) : OccursAt(t, s, p)
    THEN CHOOSE p \in 0..Len(t) :
            /\ OccursAt(t, s, p)
            /\ \A q \in 0..(p - 1) : ~OccursAt(t, s, q)
    ELSE -1

\* The sentinel name "Unknown" of processDevice
UnknownName == <<"U","n","k","n","o","w","n">>

\* unsigned long subtraction
SubUL(a, b) == (a - b) % UL_MOD

\* ------------------------------------------------------------------------
\* Classification (detectDeviceType, detectManufacturer)
\*
\* An advertisement is a record
\*   [addr, haveName, name, rssi, haveMfg, mfgData, haveUUID, uuid]
\* addr: BLEAddress::toString (lower-case text); mfgData: a sequence of
\* bytes; uuid: BLEUUID::toString.
\* ------------------------------------------------------------------------

\* (uint8_t)mfgData[0] | ((uint8_t)mfgData[1] << 8), a uint16_t
mfgId(mfgData) == (mfgData[1] + 256 * mfgData[2]) % 65536

\* The Apple sub-type byte mfgData[2] of detectDeviceType
AppleType(mfgData) ==
    IF Len(mfgData) > 2
    THEN CASE mfgData[3] = 2  -> "iBeacon"
           [] mfgData[3] = 5  -> "AirDrop"
           [] mfgData[3] = 7  -> "AirPods"
           [] mfgData[3] = 9  -> "AirPlay"
           [] mfgData[3] = 16 -> "AirTag"
           [] OTHER -> "Apple"
    ELSE "Apple"

\* The manufacturer-data rule of detectDeviceType; "" when it returns nothing
MfgDataType(adv) ==
    IF adv.haveMfg /\ Len(adv.mfgData) >= 2
    THEN CASE mfgId(adv.mfgData) = 76   -> AppleType(adv.mfgData)
           [] mfgId(adv.mfgData) = 117  -> "Samsung"
           [] mfgId(adv.mfgData) = 224  -> "Google"
           [] mfgId(adv.mfgData) = 6    -> "Microsoft"
           [] mfgId(adv.mfgData) = 1143 -> "Tile"
           [] OTHER -> ""
    ELSE ""

\* The service UUID table of detectDeviceType, in the order it is tried
ServiceUUIDTable == <<
    <<<<"1","8","0","d">>, "Wearable">>,
    <<<<"1","8","0","f">>, "BLE Device">>,
    <<<<"1","8","1","2">>, "HID">>,
    <<<<"1","8","0","3">>, "Beacon">>,
    <<<<"f","e","9","f">>, "Phone">> >>

\* A variant no build contains: the name fragments with the phones tried
\* before the audio accessories, the wearables and the trackers
NameFragmentsPhonesFirst == <<
    <<<<"i","p","h","o","n","e">>, "Phone">>,
    <<<<"g","a","l","a","x","y">>, "Phone">>,
    <<<<"p","i","x","e","l">>, "Phone">>,
    <<<<"a","i","r","p","o","d","s">>, "Audio">>,
    <<<<"g","a","l","a","x","y"," ","b","u","d","s">>, "Audio">>,
    <<<<"b","e","a","t","s">>, "Audio">>,
    <<<<"j","b","l">>, "Audio">>,
    <<<<"b","o","s","e">>, "Audio">>,
    <<<<"f","i","t","b","i","t">>, "Wearable">>,
    <<<<"w","a","t","c","h">>, "Wearable">>,
    <<<<"b","a","n","d">>, "Wearable">>,
    <<<<"b","e","a","c","o","n">>, "Beacon">>,
    <<<<"t","i","l","e">>, "Tracker">>,
    <<<<"a","i","r","t","a","g">>, "Tracker">> >>

\* The name fragments of detectDeviceType, in the order they are tried
NameFragments == <<
    <<<<"a","i","r","p","o","d","s">>, "Audio">>,
    <<<<"g","a","l","a","x","y"," ","b","u","d","s">>, "Audio">>,
    <<<<"b","e","a","t","s">>, "Audio">>,
    <<<<"j","b","l">>, "Audio">>,
    <<<<"b","o","s","e">>, "Audio">>,
    <<<<"f","i","t","b","i","t">>, "Wearable">>,
    <<<<"w","a","t","c","h">>, "Wearable">>,
    <<<<"b","a","n","d">>, "Wearable">>,
    <<<<"b","e","a","c","o","n">>, "Beacon">>,
    <<<<"t","i","l","e">>, "Tracker">>,
    <<<<"a","i","r","t","a","g">>, "Tracker">>,
    <<<<"i","p","h","o","n","e">>, "Phone">>,
    <<<<"g","a","l","a","x","y">>, "Phone">>,
    <<<<"p","i","x","e","l">>, "Phone">> >>

\* The rows of table from row k on, tried in order: the label of the first
\* one whose text occurs in s, or "" when none does
RECURSIVE FirstMatchFrom(_, _, _)
FirstMatchFrom(table, s, k) ==
    IF k > Len(table) THEN ""
    ELSE IF indexOf(s, table[k][1]) >= 0 THEN table[k][2]
    ELSE FirstMatchFrom(table, s, k + 1)

FirstMatch(table, s) == FirstMatchFrom(table, s, 1)

\* The service UUID rule of detectDeviceType; "" when it returns nothing
ServiceUUIDType(adv) ==
    IF adv.haveUUID THEN FirstMatch(ServiceUUIDTable, adv.uuid) ELSE ""

\* The name rule of detectDeviceType; "" when it returns nothing
NameType(adv) ==
    FirstMatch(NameFragments, toLowerCase(IF adv.haveName THEN adv.name ELSE <<>>))

\* The first rule that returns: label unless the rule fell through ("")
OrElse(label, rest) == IF label # "" THEN label ELSE rest

\* detectDeviceType of the CYD build
detectDeviceType(adv) ==
    OrElse(MfgDataType(adv),
           OrElse(ServiceUUIDType(adv), OrElse(NameType(adv), "Unknown")))

\* A variant no build contains: the manufacturer taken from the name when
\* the advertisement says iPhone
detectManufacturerOrName(adv) ==
    IF NameType(adv) = "Phone" /\ indexOf(toLowerCase(adv.name), <<"i","p","h","o","n","e">>) >= 0
    THEN "Apple"
    ELSE IF adv.haveMfg /\ Len(adv.mfgData) >= 2 /\ mfgId(adv.mfgData) = 76
    THEN "Apple"
    ELSE "Unknown"

\* detectManufacturer of the CYD build
detectManufacturer(adv) ==
    IF adv.haveMfg /\ Len(adv.mfgData) >= 2
    THEN CASE mfgId(adv.mfgData) = 76   -> "Apple"
           [] mfgId(adv.mfgData) = 117  -> "Samsung"
           [] mfgId(adv.mfgData) = 224  -> "Google"
           [] mfgId(adv.mfgData) = 6    -> "Microsoft"
           [] mfgId(adv.mfgData) = 1143 -> "Tile"
           [] mfgId(adv.mfgData) = 135  -> "Garmin"
           [] mfgId(adv.mfgData) = 343  -> "Huawei"
           [] mfgId(adv.mfgData) = 784  -> "Xiaomi"
           [] mfgId(adv.mfgData) = 89   -> "Nordic"
           [] mfgId(adv.mfgData) = 79   -> "Sony"
           [] OTHER -> "Unknown"
    ELSE "Unknown"

\* detectDeviceType of the HELTEC build
detectDeviceTypeHeltec(adv) ==
    IF adv.haveMfg /\ Len(adv.mfgData) >= 2
    THEN CASE mfgId(adv.mfgData) = 76   -> "Apple"
           [] mfgId(adv.mfgData) = 117  -> "Samsung"
           [] mfgId(adv.mfgData) = 224  -> "Google"
           [] OTHER -> "Unknown"
    ELSE "Unknown"

\* detectManufacturer of the HELTEC build
detectManufacturerHeltec(adv) ==
    IF adv.haveMfg /\ Len(adv.mfgData) >= 2
    THEN CASE mfgId(adv.mfgData) = 76   -> "Apple"
           [] mfgId(adv.mfgData) = 117  -> "Samsung"
           [] mfgId(adv.mfgData) = 224  -> "Google"
           [] mfgId(adv.mfgData) = 6    -> "Microsoft"
           [] OTHER -> "Unknown"
    ELSE "Unknown"

\* ------------------------------------------------------------------------
\* State
\* ------------------------------------------------------------------------

VARIABLES
    board,           \* which firmware is running: "CYD" or "HELTEC"
    devices,         \* BLEDeviceInfo devices[MAX_TRACKED_DEVICES]
    deviceCount,     \* int deviceCount
    whitelist,       \* WhitelistEntry whitelist[50] (CYD)
    whitelistCount,  \* int whitelistCount (CYD)
    whitelistFile,   \* /whitelist.json on SPIFFS (CYD)
    millis,          \* the value millis() returns
    boot,            \* the value of millis() in the initial state
    events,          \* what the last handler did that its caller or a
                     \* collaborator can observe, in order
    callback,        \* the BLE task inside updateDeviceList: its position
                     \* and locals (pc "idle" between advertisements)
    sweep,           \* the loop task inside pruneStaleDevices: its position
                     \* and locals (pc "idle" outside it)
    touch,           \* the loop task inside handleTouch, waiting for the
                     \* long press on a device row (pc "idle" outside it)
    scanInProgress,  \* bool scanInProgress
    lastScanTime,    \* unsigned long lastScanTime
    scanStartTime,   \* unsigned long scanStartTime
    radioStarted,    \* what pBLEScan->start(...) returned to the last
                     \* startBLEScan: whether the radio took up the scan
    apiKey,          \* the log server: the key main() configured
    response,        \* the log server: the last request the router took
                     \* and what became of it
    clients,         \* hub.clients: the registered WebSocket clients
    send,            \* client.send of every client: the buffered messages
                     \* and whether the channel is closed
    broadcast,       \* hub.broadcast: the buffered messages
    hubRun,          \* where the goroutine of Hub.run stands
    ws,              \* per WebSocket client, where HandleWebSocket and the
                     \* three goroutines it starts stand
    poster,          \* the broadcasting goroutine of HandlePostLogs
    panic            \* the run-time panic that ended the server, "" if none

registryVars == <<devices, deviceCount>>

whitelistVars == <<whitelist, whitelistCount, whitelistFile>>

clockVars == <<millis, boot>>

taskVars == <<callback, sweep, touch>>

scanVars == <<scanInProgress, lastScanTime, scanStartTime, radioStarted>>

\* The state of the log server (server/main.go and its handlers)
hubVars == <<clients, send, broadcast, hubRun, ws, poster, panic>>
serverVars == <<apiKey, response, hubVars>>

\* The state of the scanner firmware
deviceVars == <<board, devices, deviceCount, whitelist, whitelistCount,
                whitelistFile, millis, boot, events, callback, sweep, touch,
                scanInProgress, lastScanTime, scanStartTime, radioStarted>>

vars == <<board, devices, deviceCount, whitelist, whitelistCount,
          whitelistFile, millis, boot, events, callback, sweep, touch,
          scanInProgress, lastScanTime, scanStartTime, radioStarted,
          apiKey, response, clients, send, broadcast, hubRun, ws, poster,
          panic>>

\* A call of a collaborator (logger, buzzer, webhook, display, store) about
\* the device with address mac (<<>> when the call names no device)
Call(name, mac) == [call |-> name, mac |-> mac, index |-> -1]

\* The entry at index, with address mac, left the registry: call is
\* "evict" (updateDeviceList) or "prune" (pruneStaleDevices)
Removal(call, mac, index) == [call |-> call, mac |-> mac, index |-> index]

\* struct BLEDeviceInfo of the CYD build, as the global array holds it
\* before any write (static storage, default-constructed Strings)
ZeroDevice ==
    [mac |-> <<>>, name |-> <<>>, rssi |-> 0, deviceType |-> "",
     manufacturer |-> "", isKnown |-> FALSE, isNew |-> FALSE,
     firstSeen |-> 0, lastSeen |-> 0, alertSent |-> FALSE]

\* struct BLEDeviceInfo of the HELTEC build
ZeroDeviceHeltec ==
    [mac |-> <<>>, name |-> <<>>, rssi |-> 0, deviceType |-> "",
     manufacturer |-> "", lastSeen |-> 0]

\* struct WhitelistEntry
ZeroEntry == [mac |-> <<>>, name |-> <<>>, type |-> ""]

DeviceSlots == 0..(MAX_TRACKED_DEVICES - 1)

WhitelistSlots == 0..(WHITELIST_MAX - 1)

\* millis() has advanced by this much since the initial state
Elapsed == SubUL(millis, boot)

\* No advertisement in hand
NoAdvert ==
    [addr |-> <<>>, haveName |-> FALSE, name |-> <<>>, rssi |-> 0,
     haveMfg |-> FALSE, mfgData |-> <<>>, haveUUID |-> FALSE, uuid |-> <<>>]

\* The BLE task outside updateDeviceList
CallbackIdle == [pc |-> "idle", adv |-> NoAdvert, currentTime |-> 0, i |-> 0]

\* The loop task outside pruneStaleDevices
SweepIdle == [pc |-> "idle", currentTime |-> 0, i |-> 0, j |-> 0]

\* The key main() falls back to: "dev-key-change-me"
DefaultKey == <<"d", "e", "v", "-", "k", "e", "y", "-", "c", "h", "a", "n",
                "g", "e", "-", "m", "e">>

\* The log server before any request
NoResponse == [route |-> "", authorization |-> <<>>, xApiKey |-> <<>>,
               status |-> 0, handler |-> ""]

\* The scanner posting batches of logs, one batch after the other
PostIds == {"p1"}

\* The WebSocket connections the server is offered, named in the order
\* of their arrival
Clients == {"c1", "c2"}
Earlier(c) == IF c = "c2" THEN {"c1"} ELSE {}

\* A channel make(chan []byte, n) returns: empty and open
NoChan == [buf |-> <<>>, closed |-> FALSE]

\* Hub.run waiting in its select
HubSelect == [pc |-> "select", message |-> "", todo |-> {}]

\* A connection for which HandleWebSocket has not been called
NoConn == [handler |-> "none", initial |-> "none", writePump |-> "none",
           readPump |-> "none"]

\* No batch of a scanner is being broadcast; dropped: a message of its
\* last batch found hub.broadcast full
NoPost == [pc |-> "idle", dropped |-> FALSE]

\* The loop task outside the long-press wait of handleTouch.  pressed is
\* the address that was in the row when it was pressed; the code keeps only
\* deviceIndex
TouchIdle == [pc |-> "idle", deviceIndex |-> 0, pressed |-> <<>>]

\* ------------------------------------------------------------------------
\* Allow-list (CYD)
\* ------------------------------------------------------------------------

\* A variant no build contains: the loop of loadWhitelist without
\* "if (whitelistCount >= 50) break"
RECURSIVE loadEntriesUncapped(_, _, _, _)
loadEntriesUncapped(doc, k, wl, cnt) ==
    IF k > Len(doc) THEN [whitelist |-> wl, whitelistCount |-> cnt]
    ELSE loadEntriesUncapped(doc, k + 1,
                             [s \in DOMAIN wl |-> IF s = cnt THEN doc[k] ELSE wl[s]],
                             cnt + 1)

\* The loop of loadWhitelist over the parsed array: at most 50 entries
RECURSIVE loadEntries(_, _, _, _)
loadEntries(doc, k, wl, cnt) ==
    IF k > Len(doc) \/ cnt >= WHITELIST_MAX THEN [whitelist |-> wl, whitelistCount |-> cnt]
    ELSE loadEntries(doc, k + 1, [wl EXCEPT ![cnt] = doc[k]], cnt + 1)

\* /whitelist.json: status is "absent", "unopenable", "corrupt" or
\* "parsed", and entries is its "devices" array
StoredFile(status, entries) == [status |-> status, entries |-> entries]

\* A variant no build contains: loadWhitelist taking the entries of the
\* file whatever became of opening and parsing it
loadWhitelistAnyway(file) ==
    loadEntries(file.entries, 1, [s \in WhitelistSlots |-> ZeroEntry], 0)

\* loadWhitelist
loadWhitelist(file) ==
    IF file.status # "parsed"
    THEN [whitelist |-> [s \in WhitelistSlots |-> ZeroEntry], whitelistCount |-> 0]
    ELSE loadEntries(file.entries, 1, [s \in WhitelistSlots |-> ZeroEntry], 0)

\* What saveWhitelist serializes: the first cnt entries
savedDocument(wl, cnt) == StoredFile("parsed", [k \in 1..cnt |-> wl[k - 1]])

\* A variant no build contains: isKnownFrom that compares the addresses as they are stored
RECURSIVE isKnownFromExact(_, _, _, _)
isKnownFromExact(mac, wl, cnt, i) ==
    IF i >= cnt THEN FALSE
    ELSE IF mac = wl[i].mac THEN TRUE
    ELSE isKnownFromExact(mac, wl, cnt, i + 1)

\* isDeviceKnown over a given allow-list
RECURSIVE isKnownFrom(_, _, _, _)
isKnownFrom(mac, wl, cnt, i) ==
    IF i >= cnt THEN FALSE
    ELSE IF toUpperCase(mac) = toUpperCase(wl[i].mac) THEN TRUE
    ELSE isKnownFrom(mac, wl, cnt, i + 1)

\* bool isDeviceKnown(String mac)
isDeviceKnown(mac) == isKnownFrom(mac, whitelist, whitelistCount, 0)

\* ------------------------------------------------------------------------
\* Variants of the registry code. No build contains them: each is what an
\* operator below would be with one decision taken differently, and the
\* properties at the end of the module are expected to tell them apart.
\* ------------------------------------------------------------------------

\* makeRoom that evicts only when deviceCount > MAX_TRACKED_DEVICES
makeRoomWhenOver(devs, cnt, victim) ==
    IF cnt > MAX_TRACKED_DEVICES
    THEN [devices |-> [k \in DOMAIN devs |->
                          IF k >= victim /\ k < cnt - 1 THEN devs[k + 1] ELSE devs[k]],
          deviceCount |-> cnt - 1,
          removed |-> << Removal("evict", devs[victim].mac, victim) >>]
    ELSE [devices |-> devs, deviceCount |-> cnt, removed |-> <<>>]

\* findDevice that never looks at the last tracked entry
RECURSIVE findDeviceButLast(_, _, _, _)
findDeviceButLast(devs, cnt, mac, i) ==
    IF i >= cnt - 1 THEN -1
    ELSE IF devs[i].mac = mac THEN i
    ELSE findDeviceButLast(devs, cnt, mac, i + 1)

\* isStale that also drops an entry whose age equals DEVICE_TIMEOUT
isStaleAtTimeout(currentTime, lastSeen) ==
    SubUL(currentTime, lastSeen) >= DEVICE_TIMEOUT

\* The oldest-entry scan with <= in place of <: the last of the entries
\* tied for the smallest lastSeen
RECURSIVE oldestFromTiesLast(_, _, _, _)
oldestFromTiesLast(devs, cnt, i, idx) ==
    IF i >= cnt THEN idx
    ELSE IF devs[i].lastSeen <= devs[idx].lastSeen
         THEN oldestFromTiesLast(devs, cnt, i + 1, i)
         ELSE oldestFromTiesLast(devs, cnt, i + 1, idx)

oldestIdxTiesLast(devs, cnt) == oldestFromTiesLast(devs, cnt, 1, 0)

\* alertsUnknown that ignores the allow-list
alertsEveryNewDevice(nd) == ~nd.alertSent

\* fillIn that always takes the incoming value
takeIncoming(stored, incoming, sentinel) == incoming

\* shiftDown with the copy going the wrong way: devices[i + 1] = devices[i]
shiftUp(devs, cnt, from) ==
    [k \in DOMAIN devs |-> IF k > from /\ k < cnt THEN devs[from] ELSE devs[k]]

\* ------------------------------------------------------------------------
\* Registry: the loops of updateDeviceList and pruneStaleDevices
\* ------------------------------------------------------------------------

\* for (i = 0; i < deviceCount; i++) if (devices[i].mac == mac): the index
\* found, or -1
RECURSIVE findDevice(_, _, _, _)
findDevice(devs, cnt, mac, i) ==
    IF i >= cnt THEN -1
    ELSE IF devs[i].mac = mac THEN i
    ELSE findDevice(devs, cnt, mac, i + 1)

\* if (incoming != "Unknown" && stored == "Unknown") stored = incoming
fillIn(stored, incoming, sentinel) ==
    IF incoming # sentinel /\ stored = sentinel THEN incoming ELSE stored

\* updateExisting that also restamps firstSeen with the observation time
updateExistingRestamped(dev, name, rssi, deviceType, manufacturer, currentTime) ==
    [dev EXCEPT !.rssi = rssi, !.lastSeen = currentTime,
        !.firstSeen = currentTime,
        !.name = fillIn(dev.name, name, UnknownName),
        !.deviceType = fillIn(dev.deviceType, deviceType, "Unknown"),
        !.manufacturer = fillIn(dev.manufacturer, manufacturer, "Unknown"),
        !.isNew = SubUL(currentTime, dev.firstSeen) < NEW_DEVICE_THRESHOLD]

\* The found branch of updateDeviceList (CYD)
updateExisting(dev, name, rssi, deviceType, manufacturer, currentTime) ==
    [dev EXCEPT
        !.rssi = rssi,
        !.lastSeen = currentTime,
        !.name = fillIn(dev.name, name, UnknownName),
        !.deviceType = fillIn(dev.deviceType, deviceType, "Unknown"),
        !.manufacturer = fillIn(dev.manufacturer, manufacturer, "Unknown"),
        !.isNew = SubUL(currentTime, dev.firstSeen) < NEW_DEVICE_THRESHOLD]

\* The found branch of updateDeviceList (HELTEC)
updateExistingHeltec(dev, name, rssi, deviceType, manufacturer, currentTime) ==
    [dev EXCEPT
        !.rssi = rssi,
        !.lastSeen = currentTime,
        !.name = fillIn(dev.name, name, UnknownName)]

\* Removal that fills the hole with the last entry instead of shifting
moveLastInto(devs, cnt, from) ==
    [k \in DOMAIN devs |-> IF k = from /\ cnt > 0 THEN devs[cnt - 1] ELSE devs[k]]

\* for (i = from; i < deviceCount - 1; i++) devices[i] = devices[i + 1]
shiftDown(devs, cnt, from) ==
    [k \in DOMAIN devs |-> IF k >= from /\ k < cnt - 1 THEN devs[k + 1] ELSE devs[k]]

\* The scan for the weakest signal (CYD): weakestRSSI and removeIndex
\* after the loop has reached i
RECURSIVE weakestFrom(_, _, _, _, _)
weakestFrom(devs, cnt, i, weakestRSSI, removeIndex) ==
    IF i >= cnt THEN removeIndex
    ELSE IF devs[i].rssi < weakestRSSI
         THEN weakestFrom(devs, cnt, i + 1, devs[i].rssi, i)
         ELSE weakestFrom(devs, cnt, i + 1, weakestRSSI, removeIndex)

\* int removeIndex = 0; int weakestRSSI = 0; for (...)
removeIndex(devs, cnt) == weakestFrom(devs, cnt, 0, 0, 0)

\* The scan for the oldest entry (HELTEC): oldestIdx after the loop has
\* reached i
RECURSIVE oldestFrom(_, _, _, _)
oldestFrom(devs, cnt, i, idx) ==
    IF i >= cnt THEN idx
    ELSE IF devs[i].lastSeen < devs[idx].lastSeen
         THEN oldestFrom(devs, cnt, i + 1, i)
         ELSE oldestFrom(devs, cnt, i + 1, idx)

\* int oldestIdx = 0; for (i = 1; ...)
oldestIdx(devs, cnt) == oldestFrom(devs, cnt, 1, 0)

\* if (deviceCount >= MAX_TRACKED_DEVICES) { ...; deviceCount--; } with the
\* victim the build picks
makeRoom(devs, cnt, victim) ==
    IF cnt >= MAX_TRACKED_DEVICES
    THEN [devices |-> shiftDown(devs, cnt, victim), deviceCount |-> cnt - 1,
          removed |-> << Removal("evict", devs[victim].mac, victim) >>]
    ELSE [devices |-> devs, deviceCount |-> cnt, removed |-> <<>>]

\* age > DEVICE_TIMEOUT with age = currentTime - lastSeen (unsigned long)
isStale(currentTime, lastSeen) == SubUL(currentTime, lastSeen) > DEVICE_TIMEOUT

\* The while loop of pruneStaleDevices from index i on
RECURSIVE pruneFrom(_, _, _, _, _)
pruneFrom(devs, cnt, i, currentTime, removed) ==
    IF i >= cnt THEN [devices |-> devs, deviceCount |-> cnt, removed |-> removed]
    ELSE IF isStale(currentTime, devs[i].lastSeen)
         THEN pruneFrom(shiftDown(devs, cnt, i), cnt - 1, i, currentTime,
                        Append(removed, Removal("prune", devs[i].mac, i)))
         ELSE pruneFrom(devs, cnt, i + 1, currentTime, removed)

\* BLEDeviceInfo newDevice of updateDeviceList (CYD)
newDevice(mac, name, rssi, deviceType, manufacturer, currentTime) ==
    [mac |-> mac, name |-> name, rssi |-> rssi, deviceType |-> deviceType,
     manufacturer |-> manufacturer, isKnown |-> isDeviceKnown(mac),
     isNew |-> TRUE, firstSeen |-> currentTime, lastSeen |-> currentTime,
     alertSent |-> FALSE]

\* if (!newDevice.isKnown && !newDevice.alertSent)
alertsUnknown(nd) == ~nd.isKnown /\ ~nd.alertSent

\* newDeviceEvents with "if (newDevice.isNew)" in place of "else if": the
\* new-device beep follows the unknown-device alert
newDeviceEventsBoth(nd) ==
    << Call("logDeviceToSD", nd.mac) >>
    \o (IF alertsUnknown(nd)
        THEN << Call("alertUnknownDevice", <<>>), Call("sendWebhookAlert", nd.mac) >>
        ELSE <<>>)
    \o (IF nd.isNew THEN << Call("alertNewDevice", <<>>) >> ELSE <<>>)

\* The collaborator calls at the end of updateDeviceList (CYD)
newDeviceEvents(nd) ==
    << Call("logDeviceToSD", nd.mac) >>
    \o (IF alertsUnknown(nd)
        THEN << Call("alertUnknownDevice", <<>>), Call("sendWebhookAlert", nd.mac) >>
        ELSE IF nd.isNew THEN << Call("alertNewDevice", <<>>) >> ELSE <<>>)

\* ------------------------------------------------------------------------
\* Handlers
\* ------------------------------------------------------------------------

\* void updateDeviceList(...) of the CYD build
updateDeviceList(mac, name, rssi, deviceType, manufacturer) ==
    LET currentTime == millis
        i == findDevice(devices, deviceCount, mac, 0)
    IN  IF i >= 0
        THEN /\ devices' = [devices EXCEPT ![i] =
                    updateExisting(devices[i], name, rssi, deviceType,
                                   manufacturer, currentTime)]
             /\ deviceCount' = deviceCount
             /\ events' = <<>>
        ELSE LET room == makeRoom(devices, deviceCount,
                                  removeIndex(devices, deviceCount))
                 nd == newDevice(mac, name, rssi, deviceType, manufacturer,
                                 currentTime)
             IN  /\ devices' = [room.devices EXCEPT ![room.deviceCount] =
                        [nd EXCEPT !.alertSent = alertsUnknown(nd)]]
                 /\ deviceCount' = room.deviceCount + 1
                 /\ events' = room.removed \o newDeviceEvents(nd)

\* void updateDeviceList(...) of the HELTEC build
updateDeviceListHeltec(mac, name, rssi, deviceType, manufacturer) ==
    LET currentTime == millis
        i == findDevice(devices, deviceCount, mac, 0)
    IN  IF i >= 0
        THEN /\ devices' = [devices EXCEPT ![i] =
                    updateExistingHeltec(devices[i], name, rssi, deviceType,
                                         manufacturer, currentTime)]
             /\ deviceCount' = deviceCount
             /\ events' = <<>>
        ELSE LET room == makeRoom(devices, deviceCount,
                                  oldestIdx(devices, deviceCount))
             IN  /\ devices' = [room.devices EXCEPT ![room.deviceCount] =
                        [mac |-> mac, name |-> name, rssi |-> rssi,
                         deviceType |-> deviceType,
                         manufacturer |-> manufacturer,
                         lastSeen |-> currentTime]]
                 /\ deviceCount' = room.deviceCount + 1
                 /\ events' = room.removed

\* The name processDevice passes on
advertisedName(adv) == IF adv.haveName THEN adv.name ELSE UnknownName

\* void processDevice(BLEAdvertisedDevice&) of the CYD build
processDevice(adv) ==
    updateDeviceList(toUpperCase(adv.addr), advertisedName(adv), adv.rssi,
                     detectDeviceType(adv), detectManufacturer(adv))

\* void processDevice(BLEAdvertisedDevice&) of the HELTEC build
processDeviceHeltec(adv) ==
    updateDeviceListHeltec(toUpperCase(adv.addr), advertisedName(adv), adv.rssi,
                           detectDeviceTypeHeltec(adv),
                           detectManufacturerHeltec(adv))

\* BLEScanCallbacks::onResult: one advertisement delivered by the radio
onResult(adv) ==
    /\ IF board = "CYD" THEN processDevice(adv) ELSE processDeviceHeltec(adv)
    /\ UNCHANGED <<serverVars, board, whitelistVars, clockVars, taskVars, scanVars>>

\* void pruneStaleDevices() (the same code in both builds)
pruneStaleDevices ==
    LET pruned == pruneFrom(devices, deviceCount, 0, millis, <<>>)
    IN  /\ devices' = pruned.devices
        /\ deviceCount' = pruned.deviceCount
        /\ events' = pruned.removed
        /\ UNCHANGED <<serverVars, board, whitelistVars, clockVars, taskVars, scanVars>>

\* void saveWhitelist(): opened tells whether SPIFFS.open(..., "w") succeeded
saveWhitelist(wl, cnt, opened) ==
    IF opened THEN savedDocument(wl, cnt) ELSE whitelistFile

\* void addToWhitelist(int deviceIndex), and the return of handleTouch,
\* its only caller, that follows it
addToWhitelist(deviceIndex, opened) ==
    /\ board = "CYD"
    /\ IF \/ deviceIndex < 0
          \/ deviceIndex >= deviceCount
          \/ whitelistCount >= WHITELIST_MAX
          \/ isDeviceKnown(devices[deviceIndex].mac)
       THEN /\ UNCHANGED <<devices, whitelistVars>>
            /\ events' = <<>>
       ELSE LET dev == devices[deviceIndex]
                wl == [whitelist EXCEPT ![whitelistCount] =
                          [mac |-> dev.mac, name |-> dev.name,
                           type |-> dev.deviceType]]
            IN  /\ whitelist' = wl
                /\ whitelistCount' = whitelistCount + 1
                /\ devices' = [devices EXCEPT ![deviceIndex].isKnown = TRUE]
                /\ whitelistFile' = saveWhitelist(wl, whitelistCount + 1, opened)
                /\ events' = << Call("saveWhitelist", <<>>),
                                Call("alertWhitelistAdded", <<>>),
                                Call("drawDisplay", <<>>) >>
    /\ touch' = TouchIdle
    /\ UNCHANGED <<serverVars, board, deviceCount, clockVars, callback, sweep, scanVars>>

\* The search loop of removeFromWhitelist: the first matching entry, or -1
RECURSIVE whitelistIndex(_, _, _, _)
whitelistIndex(macToRemove, wl, cnt, i) ==
    IF i >= cnt THEN -1
    ELSE IF macToRemove = toUpperCase(wl[i].mac) THEN i
    ELSE whitelistIndex(macToRemove, wl, cnt, i + 1)

\* void removeFromWhitelist(int deviceIndex), and the return of handleTouch,
\* its only caller, that follows it
removeFromWhitelist(deviceIndex, opened) ==
    /\ board = "CYD"
    /\ LET found == IF deviceIndex < 0 \/ deviceIndex >= deviceCount THEN -1
                    ELSE whitelistIndex(toUpperCase(devices[deviceIndex].mac),
                                        whitelist, whitelistCount, 0)
       IN  IF found < 0
           THEN /\ UNCHANGED <<devices, whitelistVars>>
                /\ events' = <<>>
           ELSE LET wl == shiftDown(whitelist, whitelistCount, found)
                IN  /\ whitelist' = wl
                    /\ whitelistCount' = whitelistCount - 1
                    /\ devices' = [devices EXCEPT ![deviceIndex].isKnown = FALSE]
                    /\ whitelistFile' = saveWhitelist(wl, whitelistCount - 1, opened)
                    /\ events' = << Call("saveWhitelist", <<>>),
                                    Call("drawDisplay", <<>>) >>
    /\ touch' = TouchIdle
    /\ UNCHANGED <<serverVars, board, deviceCount, clockVars, callback, sweep, scanVars>>

\* handleTouch: a touch lands on row rowIndex (scrollOffset is 0) and the
\* row holds a device; the loop task enters the wait for the long press
touchPress(rowIndex) ==
    /\ board = "CYD"
    /\ touch.pc = "idle"
    /\ sweep.pc = "idle"
    /\ LET deviceIndex == rowIndex
       IN  /\ deviceIndex < deviceCount
           /\ touch' = [pc |-> "pressed", deviceIndex |-> deviceIndex,
                        pressed |-> devices[deviceIndex].mac]
    /\ events' = <<>>
    /\ UNCHANGED <<serverVars, board, registryVars, whitelistVars, clockVars, callback,
                   sweep, scanVars>>

\* handleTouch: the touch ends before the long press (a short tap)
touchRelease ==
    /\ touch.pc = "pressed"
    /\ touch' = TouchIdle
    /\ events' = <<>>
    /\ UNCHANGED <<serverVars, board, registryVars, whitelistVars, clockVars, callback,
                   sweep, scanVars>>

\* handleTouch: the touch has lasted 1000 ms, less than one unit of model
\* time: if (devices[deviceIndex].isKnown) removeFromWhitelist(deviceIndex);
\* else addToWhitelist(deviceIndex); return
touchLongPress(opened) ==
    /\ touch.pc = "pressed"
    /\ IF devices[touch.deviceIndex].isKnown
       THEN removeFromWhitelist(touch.deviceIndex, opened)
       ELSE addToWhitelist(touch.deviceIndex, opened)

\* millis() advances by d between two handlers, up to horizon in all
Tick(d, horizon) ==
    /\ Elapsed + d <= horizon
    /\ millis' = (millis + d) % UL_MOD
    /\ events' = <<>>
    /\ UNCHANGED <<serverVars, board, registryVars, whitelistVars, boot, taskVars, scanVars>>

\* ------------------------------------------------------------------------
\* Scan controller: setup(), loop() and startBLEScan()
\* ------------------------------------------------------------------------

\* A variant no build contains: the subtraction of setup() stopping at 0
\* in place of wrapping around
setupLastScanTimeClamped(now) ==
    IF now >= SCAN_INTERVAL THEN now - SCAN_INTERVAL ELSE 0

\* setup(): lastScanTime = millis() - SCAN_INTERVAL, in unsigned arithmetic
setupLastScanTime(now) == SubUL(now, SCAN_INTERVAL)

\* A variant no build contains: the scan is due only once more than
\* SCAN_INTERVAL has elapsed
scanDueLater(currentTime, last) == SubUL(currentTime, last) > SCAN_INTERVAL

\* loop(): currentTime - lastScanTime >= SCAN_INTERVAL
scanDue(currentTime, last) == SubUL(currentTime, last) >= SCAN_INTERVAL

\* A variant no build contains: the age of the scan computed without the
\* wraparound of unsigned arithmetic
scanOverUnwrapped(now, startTime) == now - startTime >= SCAN_DURATION

\* A variant no build contains: the scan is over only once more than the
\* scan window has elapsed
scanOverLater(now, startTime) == SubUL(now, startTime) > SCAN_DURATION

\* loop(): millis() - scanStartTime >= SCAN_DURATION * 1000 + 500
scanOver(now, startTime) == SubUL(now, startTime) >= SCAN_DURATION

\* loop(): the value stored into lastScanTime when a scan completes; the
\* assignment precedes pruneStaleDevices() and the display update, so it
\* holds the time before them (entered) and not the time after (left)
completionTime(entered, left) == entered

\* A variant no build contains: startBLEScan raising scanInProgress only
\* when the radio took up the scan
inProgressIfAccepted(accepted) == accepted

\* startBLEScan: scanInProgress = true, assigned before pBLEScan->start is
\* called and not revised by what it returns
inProgressAfterStart(accepted) == TRUE

\* drawDeviceRow: the colour of the status dot of one row
statusColor(dev) ==
    IF dev.isKnown THEN "COLOR_KNOWN"
    ELSE IF dev.isNew THEN "COLOR_NEW"
    ELSE "COLOR_UNKNOWN"

\* What the completion block of loop() calls after pruneStaleDevices():
\* drawDisplay() on the CYD build; updateDisplay() and, with WiFi up and
\* a device left, postLogsToServer() on the HELTEC build
publication(count, wifiConnected) ==
    IF board = "CYD" THEN << Call("drawDisplay", <<>>) >>
    ELSE << Call("updateDisplay", <<>>) >> \o
         (IF wifiConnected /\ count > 0
          THEN << Call("postLogsToServer", <<>>) >> ELSE <<>>)

\* void loop(): one iteration of the scan controller, which ends in
\* delay(1) (CYD) or delay(10) (HELTEC).  work is the time the sweep and
\* the publication take, wifiConnected the HELTEC flag initWiFi set, and
\* accepted what pBLEScan->start returns should startBLEScan be called.
loop(work, wifiConnected, accepted) ==
    LET currentTime == millis
        started == ~scanInProgress /\ scanDue(currentTime, lastScanTime)
        inProgress == scanInProgress \/ (started /\ inProgressAfterStart(accepted))
        startTime == IF started THEN millis ELSE scanStartTime
        completed == inProgress /\ scanOver(millis, startTime)
        left == IF completed THEN (millis + work) % UL_MOD ELSE millis
        pruned == pruneFrom(devices, deviceCount, 0, millis, <<>>)
    IN  /\ scanStartTime' = startTime
        /\ radioStarted' = IF started THEN accepted ELSE radioStarted
        /\ scanInProgress' = (inProgress /\ ~completed)
        /\ lastScanTime' = IF completed THEN completionTime(millis, left)
                           ELSE lastScanTime
        /\ devices' = IF completed THEN pruned.devices ELSE devices
        /\ deviceCount' = IF completed THEN pruned.deviceCount
                          ELSE deviceCount
        /\ millis' = left
        /\ events' =
               (IF started THEN << Call("startBLEScan", <<>>) >> ELSE <<>>) \o
               (IF completed
                THEN << Call("pruneStaleDevices", <<>>) >> \o
                     pruned.removed \o
                     publication(pruned.deviceCount, wifiConnected)
                ELSE <<>>) \o
               << Call("delay", <<>>) >>
        /\ UNCHANGED <<serverVars, board, whitelistVars, boot, taskVars>>

\* ------------------------------------------------------------------------
\* The two tasks of the CYD build, one access to the registry at a time.
\* onResult runs in the BLE host task, loop() in the Arduino loop task, and
\* no lock, critical section or queue stands between them; the scan is
\* started non-blocking (startBLEScan), so loop() keeps running while
\* advertisements arrive. Each step below is the code between two accesses
\* to devices / deviceCount that the other task can observe; a struct
\* assignment and an increment count as one access.
\* ------------------------------------------------------------------------

\* The mac argument the BLE task holds
callbackMac == toUpperCase(callback.adv.addr)

\* BLEDeviceInfo newDevice as the BLE task builds it
callbackNewDevice ==
    newDevice(callbackMac, advertisedName(callback.adv), callback.adv.rssi,
              detectDeviceType(callback.adv), detectManufacturer(callback.adv),
              callback.currentTime)

\* onResult -> processDevice -> updateDeviceList: unsigned long currentTime = millis()
callbackBegin(adv) ==
    /\ callback.pc = "idle"
    /\ callback' = [pc |-> "find", adv |-> adv, currentTime |-> millis, i |-> 0]
    /\ UNCHANGED <<serverVars, board, registryVars, whitelistVars, clockVars, events, sweep, touch,
                 scanVars>>

\* for (i = 0; i < deviceCount; i++) if (devices[i].mac == mac): one test
callbackFind ==
    /\ callback.pc = "find"
    /\ callback' =
          IF callback.i < deviceCount
          THEN IF devices[callback.i].mac = callbackMac
               THEN [callback EXCEPT !.pc = "update"]
               ELSE [callback EXCEPT !.i = callback.i + 1]
          ELSE IF deviceCount >= MAX_TRACKED_DEVICES
               THEN [callback EXCEPT !.pc = "pick"]
               ELSE [callback EXCEPT !.pc = "store"]
    /\ UNCHANGED <<serverVars, board, registryVars, whitelistVars, clockVars, events, sweep, touch,
                 scanVars>>

\* The writes of the found branch to devices[i], and return
callbackUpdate ==
    /\ callback.pc = "update"
    /\ devices' = [devices EXCEPT ![callback.i] =
          updateExisting(devices[callback.i], advertisedName(callback.adv),
                         callback.adv.rssi, detectDeviceType(callback.adv),
                         detectManufacturer(callback.adv), callback.currentTime)]
    /\ callback' = CallbackIdle
    /\ UNCHANGED <<serverVars, board, deviceCount, whitelistVars, clockVars, events, sweep, touch,
                 scanVars>>

\* The scan for removeIndex; the shift starts there
callbackPick ==
    /\ callback.pc = "pick"
    /\ callback' = [callback EXCEPT !.pc = "shift",
                                    !.i = removeIndex(devices, deviceCount)]
    /\ UNCHANGED <<serverVars, board, registryVars, whitelistVars, clockVars, events, sweep, touch,
                 scanVars>>

\* for (i = removeIndex; i < deviceCount - 1; i++) devices[i] = devices[i + 1]
callbackShift ==
    /\ callback.pc = "shift"
    /\ IF callback.i < deviceCount - 1
       THEN /\ devices' = [devices EXCEPT ![callback.i] = devices[callback.i + 1]]
            /\ callback' = [callback EXCEPT !.i = callback.i + 1]
       ELSE /\ devices' = devices
            /\ callback' = [callback EXCEPT !.pc = "decrement"]
    /\ UNCHANGED <<serverVars, board, deviceCount, whitelistVars, clockVars, events, sweep, touch,
                 scanVars>>

\* deviceCount--
callbackDecrement ==
    /\ callback.pc = "decrement"
    /\ deviceCount' = deviceCount - 1
    /\ callback' = [callback EXCEPT !.pc = "store"]
    /\ UNCHANGED <<serverVars, board, devices, whitelistVars, clockVars, events, sweep, touch,
                 scanVars>>

\* devices[deviceCount] = newDevice
callbackStore ==
    /\ callback.pc = "store"
    /\ devices' = [devices EXCEPT ![deviceCount] = callbackNewDevice]
    /\ callback' = [callback EXCEPT !.pc = "increment"]
    /\ UNCHANGED <<serverVars, board, deviceCount, whitelistVars, clockVars, events, sweep, touch,
                 scanVars>>

\* deviceCount++
callbackIncrement ==
    /\ callback.pc = "increment"
    /\ deviceCount' = deviceCount + 1
    /\ callback' = [callback EXCEPT !.pc = "alert"]
    /\ UNCHANGED <<serverVars, board, devices, whitelistVars, clockVars, events, sweep, touch,
                 scanVars>>

\* if (!newDevice.isKnown && ...) { ...; devices[deviceCount - 1].alertSent
\* = true; } and return. With deviceCount 0 the write lands in front of the
\* array: the task ends in "fault", which stands for whatever follows.
callbackAlert ==
    /\ callback.pc = "alert"
    /\ IF ~alertsUnknown(callbackNewDevice)
       THEN devices' = devices /\ callback' = CallbackIdle
       ELSE IF deviceCount - 1 \in DeviceSlots
       THEN /\ devices' = [devices EXCEPT ![deviceCount - 1].alertSent = TRUE]
            /\ callback' = CallbackIdle
       ELSE /\ devices' = devices
            /\ callback' = [CallbackIdle EXCEPT !.pc = "fault"]
    /\ UNCHANGED <<serverVars, board, deviceCount, whitelistVars, clockVars, events, sweep, touch,
                 scanVars>>

\* pruneStaleDevices: unsigned long currentTime = millis(); int i = 0
sweepBegin ==
    /\ sweep.pc = "idle"
    /\ sweep' = [pc |-> "check", currentTime |-> millis, i |-> 0, j |-> 0]
    /\ UNCHANGED <<serverVars, board, registryVars, whitelistVars, clockVars, events, callback, touch,
                 scanVars>>

\* while (i < deviceCount) { age = currentTime - devices[i].lastSeen; if ... else i++ }
sweepCheck ==
    /\ sweep.pc = "check"
    /\ sweep' =
          IF sweep.i < deviceCount
          THEN IF isStale(sweep.currentTime, devices[sweep.i].lastSeen)
               THEN [sweep EXCEPT !.pc = "shift", !.j = sweep.i]
               ELSE [sweep EXCEPT !.i = sweep.i + 1]
          ELSE SweepIdle
    /\ UNCHANGED <<serverVars, board, registryVars, whitelistVars, clockVars, events, callback, touch,
                 scanVars>>

\* for (j = i; j < deviceCount - 1; j++) devices[j] = devices[j + 1]
sweepShift ==
    /\ sweep.pc = "shift"
    /\ IF sweep.j < deviceCount - 1
       THEN /\ devices' = [devices EXCEPT ![sweep.j] = devices[sweep.j + 1]]
            /\ sweep' = [sweep EXCEPT !.j = sweep.j + 1]
       ELSE /\ devices' = devices
            /\ sweep' = [sweep EXCEPT !.pc = "decrement"]
    /\ UNCHANGED <<serverVars, board, deviceCount, whitelistVars, clockVars, events, callback, touch,
                 scanVars>>

\* deviceCount--, and back to the test of the while loop
sweepDecrement ==
    /\ sweep.pc = "decrement"
    /\ deviceCount' = deviceCount - 1
    /\ sweep' = [sweep EXCEPT !.pc = "check", !.j = 0]
    /\ UNCHANGED <<serverVars, board, devices, whitelistVars, clockVars, events, callback, touch,
                 scanVars>>

\* ------------------------------------------------------------------------
\* postLogsToServer (HELTEC)
\* ------------------------------------------------------------------------

\* A variant no build contains: every tracked device goes into the payload
devicesToSendAll(cnt) == cnt

\* int devicesToSend = min(deviceCount, 10)
devicesToSend(cnt) == IF cnt < POST_MAX THEN cnt ELSE POST_MAX

\* int sortedIndices[MAX_TRACKED_DEVICES] after sortedIndices[i] = i for
\* i < deviceCount; -1 stands for an element that was not written
identityIndices(cnt) == [i \in DeviceSlots |-> IF i < cnt THEN i ELSE -1]

\* The inner loop of the bubble sort from j on: neighbours are swapped when
\* the left one was seen earlier
RECURSIVE bubblePass(_, _, _, _)
bubblePass(devs, sortedIndices, j, limit) ==
    IF j >= limit THEN sortedIndices
    ELSE IF devs[sortedIndices[j]].lastSeen < devs[sortedIndices[j + 1]].lastSeen
         THEN bubblePass(devs,
                         [sortedIndices EXCEPT ![j] = sortedIndices[j + 1],
                                               ![j + 1] = sortedIndices[j]],
                         j + 1, limit)
         ELSE bubblePass(devs, sortedIndices, j + 1, limit)

\* The outer loop of the bubble sort from i on
RECURSIVE bubbleSort(_, _, _, _)
bubbleSort(devs, cnt, sortedIndices, i) ==
    IF i >= cnt - 1 THEN sortedIndices
    ELSE bubbleSort(devs, cnt, bubblePass(devs, sortedIndices, 0, cnt - i - 1), i + 1)

\* The "devices" array of the payload: one object per device sent, in the
\* order of sortedIndices.  Of the object the address is kept, and the
\* index of the registry entry it was built from
payloadDevices(devs, cnt) ==
    LET sortedIndices == bubbleSort(devs, cnt, identityIndices(cnt), 0)
    IN  [k \in 1..devicesToSend(cnt) |->
            [call |-> "devObj", mac |-> devs[sortedIndices[k - 1]].mac,
             index |-> sortedIndices[k - 1]]]

\* void postLogsToServer(), called by loop() with WiFi up and a device
\* tracked.  configured: BLE_SERVER_URL and BLE_API_KEY are set.
postLogsToServer(configured) ==
    /\ board = "HELTEC"
    /\ deviceCount > 0
    /\ events' = IF configured
                 THEN << Call("postLogsToServer", <<>>) >>
                      \o payloadDevices(devices, deviceCount)
                 ELSE << Call("postLogsToServer", <<>>) >>
    /\ UNCHANGED <<serverVars, board, registryVars, whitelistVars, clockVars, taskVars, scanVars>>

\* ------------------------------------------------------------------------
\* Inputs
\* ------------------------------------------------------------------------

\* An advertisement that carries only an address and a signal strength
BareAdvert(addr, rssi) ==
    [addr |-> addr, haveName |-> FALSE, name |-> <<>>, rssi |-> rssi,
     haveMfg |-> FALSE, mfgData |-> <<>>, haveUUID |-> FALSE, uuid |-> <<>>]

\* Addresses as BLEAddress::toString prints them (lower case)
Addrs == { <<"a","1">>, <<"b","2">>, <<"c","3">>, <<"d","4">> }

\* An allow-list entry as /whitelist.json stores it
StoredEntry(mac) == [mac |-> mac, name |-> <<"k">>, type |-> "Phone"]

\* The scanner after setup(), or after a sweep has emptied the registry
InitDevice(boards, files, boots) ==
    /\ board \in boards
    /\ devices = [s \in DeviceSlots |->
                     IF board = "CYD" THEN ZeroDevice ELSE ZeroDeviceHeltec]
    /\ deviceCount = 0
    /\ whitelistFile \in (IF board = "CYD" THEN files
                         ELSE {StoredFile("absent", <<>>)})
    /\ whitelist = loadWhitelist(whitelistFile).whitelist
    /\ whitelistCount = loadWhitelist(whitelistFile).whitelistCount
    /\ boot \in boots
    /\ millis = boot
    /\ events = <<>>
    /\ callback = CallbackIdle
    /\ sweep = SweepIdle
    /\ touch = TouchIdle
    /\ scanInProgress = FALSE
    /\ lastScanTime = setupLastScanTime(millis)
    /\ scanStartTime = 0
    /\ radioStarted = FALSE

\* The log server started without API_KEY, before any request
InitHub ==
    /\ clients = {}
    /\ send = [c \in Clients |-> NoChan]
    /\ broadcast = <<>>
    /\ hubRun = HubSelect
    /\ ws = [c \in Clients |-> NoConn]
    /\ poster = [i \in PostIds |-> NoPost]
    /\ panic = ""

InitServer ==
    /\ apiKey = DefaultKey
    /\ response = NoResponse
    /\ InitHub

\* The state after setup(), with the log server idle
InitWith(boards, files, boots) ==
    /\ InitDevice(boards, files, boots)
    /\ InitServer

\* ------------------------------------------------------------------------
\* Spec: both builds, one handler at a time
\* ------------------------------------------------------------------------

Adverts == { BareAdvert(a, -60) : a \in Addrs }

StoredFiles == { StoredFile("absent", <<>>),
                 StoredFile("parsed", << StoredEntry(<<"b","2">>) >>) }

BootTimes == { 0, UL_MOD - 2 }

Init == InitWith({"CYD", "HELTEC"}, StoredFiles, BootTimes)

Next ==
    \/ \E adv \in Adverts : onResult(adv)
    \/ pruneStaleDevices
    \/ \E d \in 1..MaxStep : Tick(d, MaxElapsed)

Spec == Init /\ [][Next]_vars

\* ------------------------------------------------------------------------
\* SpecAllowlist: both builds with the allow-list operations of the CYD
\* build (the rows handleTouch can pass, and the indices on either side of
\* them); the clock jumps past DEVICE_TIMEOUT in one step
\* ------------------------------------------------------------------------

AllowlistAdverts == { BareAdvert(a, -60) : a \in Addrs }

InitAllowlist == InitWith({"CYD", "HELTEC"}, {StoredFile("absent", <<>>)}, {0})

NextAllowlist ==
    \/ \E adv \in AllowlistAdverts : onResult(adv)
    \/ pruneStaleDevices
    \/ \E i \in -1..MAX_TRACKED_DEVICES :
           whitelistCount < AllowlistFill /\ addToWhitelist(i, TRUE)
    \/ \E i \in -1..MAX_TRACKED_DEVICES : removeFromWhitelist(i, TRUE)
    \/ Tick(DEVICE_TIMEOUT + 1, AllowlistElapsed)

SpecAllowlist == InitAllowlist /\ [][NextAllowlist]_vars

\* ------------------------------------------------------------------------
\* SpecMerge: both builds; one address advertises with and without a name
\* and with and without manufacturer data, so that an entry is observed
\* again with more, with less and with different information
\* ------------------------------------------------------------------------

\* The advertisement of addr with the given optional fields
Advert(addr, rssi, names, mfgs) ==
    [addr |-> addr, haveName |-> names # <<>>,
     name |-> IF names # <<>> THEN names[1] ELSE <<>>, rssi |-> rssi,
     haveMfg |-> mfgs # <<>>, mfgData |-> IF mfgs # <<>> THEN mfgs[1] ELSE <<>>,
     haveUUID |-> FALSE, uuid |-> <<>>]

MergeAdverts ==
    { BareAdvert(<<"a","1">>, -70), BareAdvert(<<"b","2">>, -70) }
    \cup { Advert(<<"a","1">>, -60, names, mfgs) :
              names \in { <<>>, << <<"T","v">> >> },
              mfgs \in { <<>>, << <<76, 0>> >>, << <<117, 0>> >> } }

InitMerge == InitWith({"CYD", "HELTEC"}, {StoredFile("absent", <<>>)}, {0})

NextMerge ==
    \/ \E adv \in MergeAdverts : onResult(adv)
    \/ pruneStaleDevices
    \/ Tick(DEVICE_TIMEOUT + 1, MergeElapsed)

SpecMerge == InitMerge /\ [][NextMerge]_vars

\* ------------------------------------------------------------------------
\* SpecEvict: both builds within one instant of millis(); every address
\* advertises at every signal strength of RSSIs, values that are not
\* negative included
\* ------------------------------------------------------------------------

RSSIs == { -80, -60, -40, 0, 5 }

EvictAdverts == { BareAdvert(a, r) : a \in Addrs, r \in RSSIs }

InitEvict == InitWith({"CYD", "HELTEC"}, {StoredFile("absent", <<>>)}, {0})

NextEvict ==
    \E adv \in EvictAdverts : onResult(adv)

SpecEvict == InitEvict /\ [][NextEvict]_vars

\* ------------------------------------------------------------------------
\* SpecOrder: the CYD build with addresses received at different signal
\* strengths, so that eviction takes entries from the middle of the
\* registry, while time passes; one
\* boot time is close enough to the wrap of millis() to pass it
\* ------------------------------------------------------------------------

OrderElapsed == 3

\* The signal strength each address is received at
OrderRSSI(a) == IF a = <<"b","2">> THEN -80 ELSE IF a = <<"d","4">> THEN -70 ELSE -60

OrderAdverts == { BareAdvert(a, OrderRSSI(a)) : a \in Addrs }

OrderBootTimes == { 0, UL_MOD - 2 }

InitOrder == InitWith({"CYD"}, {StoredFile("absent", <<>>)}, OrderBootTimes)

NextOrder ==
    \/ \E adv \in OrderAdverts : onResult(adv)
    \/ pruneStaleDevices
    \/ \E d \in 1..MaxStep : Tick(d, OrderElapsed)

SpecOrder == InitOrder /\ [][NextOrder]_vars

\* ------------------------------------------------------------------------
\* SpecTouch: the CYD build with the touch handler of the loop task and the
\* BLE task within one instant of millis(): advertisements are handled
\* while handleTouch waits for the long press (the sweep runs on the loop
\* task, which is inside handleTouch during the wait); every save opens the
\* store
\* ------------------------------------------------------------------------

TouchAdverts == { BareAdvert(a, -60) : a \in Addrs }

TouchFiles == { StoredFile("absent", <<>>),
               StoredFile("parsed", << StoredEntry(<<"B","2">>) >>) }

InitTouch == InitWith({"CYD"}, TouchFiles, {0})

NextTouch ==
    \/ \E adv \in TouchAdverts : onResult(adv)
    \/ \E rowIndex \in 0..(MAX_TRACKED_DEVICES - 1) : touchPress(rowIndex)
    \/ touchRelease
    \/ touchLongPress(TRUE)

SpecTouch == InitTouch /\ [][NextTouch]_vars

\* ------------------------------------------------------------------------
\* SpecRace: the CYD build with the BLE task and the loop task interleaved
\* ------------------------------------------------------------------------

RaceAdverts == { BareAdvert(a, -60) : a \in Addrs }

InitRace == InitWith({"CYD"}, {StoredFile("absent", <<>>)}, {0})

NextRace ==
    \/ \E adv \in RaceAdverts : callbackBegin(adv)
    \/ callbackFind
    \/ callbackUpdate
    \/ callbackPick
    \/ callbackShift
    \/ callbackDecrement
    \/ callbackStore
    \/ callbackIncrement
    \/ callbackAlert
    \/ sweepBegin
    \/ sweepCheck
    \/ sweepShift
    \/ sweepDecrement
    \/ Tick(DEVICE_TIMEOUT + 1, RaceElapsed)

SpecRace == InitRace /\ [][NextRace]_vars

\* ------------------------------------------------------------------------
\* SpecLost: SpecRace with millis() standing still while either task is
\* inside updateDeviceList or pruneStaleDevices, so that both read the same
\* currentTime and no entry written during a sweep is stale for it
\* ------------------------------------------------------------------------

NextLost ==
    \/ \E adv \in RaceAdverts : callbackBegin(adv)
    \/ callbackFind
    \/ callbackUpdate
    \/ callbackPick
    \/ callbackShift
    \/ callbackDecrement
    \/ callbackStore
    \/ callbackIncrement
    \/ callbackAlert
    \/ sweepBegin
    \/ sweepCheck
    \/ sweepShift
    \/ sweepDecrement
    \/ (callback.pc = "idle" /\ sweep.pc = "idle"
           /\ Tick(DEVICE_TIMEOUT + 1, RaceElapsed))

SpecLost == InitRace /\ [][NextLost]_vars

\* ------------------------------------------------------------------------
\* SpecPost: the HELTEC build with the server post; addresses are observed
\* again at later times, so that the order of lastSeen differs from the
\* order of the registry
\* ------------------------------------------------------------------------

PostElapsed == 3

PostAdverts == { BareAdvert(a, -60) : a \in Addrs }

InitPost == InitWith({"HELTEC"}, {StoredFile("absent", <<>>)}, {0})

NextPost ==
    \/ \E adv \in PostAdverts : onResult(adv)
    \/ pruneStaleDevices
    \/ \E configured \in BOOLEAN : postLogsToServer(configured)
    \/ \E d \in 1..MaxStep : Tick(d, PostElapsed)

SpecPost == InitPost /\ [][NextPost]_vars

\* ------------------------------------------------------------------------
\* SpecLoop: both builds under the scan controller.  loop() runs at
\* arbitrary moments, the radio delivers advertisements while a scan it
\* was asked for is running, and setup() ends at any value of millis().
\* ------------------------------------------------------------------------

LoopAdverts == { BareAdvert(a, -60) : a \in { <<"a","1">>, <<"b","2">> } }

LoopBootTimes == 0..(UL_MOD - 1)

\* BLEScan::start(SCAN_DURATION, ...): the radio reports advertisements
\* from the start of a scan until its duration is over
radioScanning ==
    /\ radioStarted
    /\ scanInProgress /\ SubUL(millis, scanStartTime) <= SCAN_DURATION

InitLoop ==
    InitWith({"CYD", "HELTEC"}, {StoredFile("absent", <<>>)}, LoopBootTimes)

NextLoop ==
    \/ \E work \in 0..MaxWork, wifiConnected \in BOOLEAN, accepted \in BOOLEAN :
           Elapsed + work <= LoopElapsed /\ loop(work, wifiConnected, accepted)
    \/ \E adv \in LoopAdverts : radioScanning /\ onResult(adv)
    \/ \E d \in 1..MaxStep : Tick(d, LoopElapsed)

SpecLoop == InitLoop /\ [][NextLoop]_vars

\* ------------------------------------------------------------------------
\* SpecTrust: the CYD build started from allow-list files of every shape
\* loadWhitelist accepts: absent, one entry, an address stored in lower
\* case, an address stored twice, an entry whose name spells another
\* address, and more entries than the array holds.  The store fails to
\* open or not at every save.
\* ------------------------------------------------------------------------

TrustAdverts == { BareAdvert(a, -60) : a \in { <<"a","1">>, <<"b","2">> } }

\* An allow-list entry with a name and a type of its own
NamedEntry(mac, name, type) == [mac |-> mac, name |-> name, type |-> type]

TrustFiles ==
    { StoredFile("absent", <<>>),
      StoredFile("parsed", << StoredEntry(<<"B","2">>) >>),
      StoredFile("parsed", << StoredEntry(<<"b","2">>) >>),
      StoredFile("parsed", << StoredEntry(<<"B","2">>),
                              StoredEntry(<<"b","2">>) >>),
      StoredFile("parsed", << NamedEntry(<<"C","3">>, <<"A","1">>, "A1") >>),
      StoredFile("parsed", << StoredEntry(<<"C","3">>),
                              StoredEntry(<<"D","4">>),
                              StoredEntry(<<"A","1">>) >>) }

InitTrust == InitWith({"CYD"}, TrustFiles, {0})

NextTrust ==
    \/ \E adv \in TrustAdverts : onResult(adv)
    \/ pruneStaleDevices
    \/ \E i \in -1..MAX_TRACKED_DEVICES, opened \in BOOLEAN :
           addToWhitelist(i, opened)
    \/ \E i \in -1..MAX_TRACKED_DEVICES, opened \in BOOLEAN :
           removeFromWhitelist(i, opened)
    \/ Tick(DEVICE_TIMEOUT + 1, TrustElapsed)

SpecTrust == InitTrust /\ [][NextTrust]_vars

\* ------------------------------------------------------------------------
\* SpecClassify: both builds; one address advertises with every
\* combination of manufacturer data (none, one byte, Apple with and
\* without a sub-type, Samsung, Microsoft, the Apple bytes in the other
\* order, an unlisted identifier), service UUID (none, Heart Rate,
\* unlisted) and name (none, two listed fragments at once, one listed
\* fragment, unlisted), and its entry is swept between observations.
\* ------------------------------------------------------------------------

ClassifyMfgs ==
    { <<>>, << <<76>> >>, << <<76, 0>> >>, << <<76, 0, 7>> >>,
      << <<117, 0>> >>, << <<6, 0>> >>, << <<0, 76>> >>, << <<99, 0>> >> }

ClassifyUUIDs ==
    { <<>>, << <<"0","0","1","8","0","d","-">> >>,
      << <<"0","0","f","f","f","f","-">> >> }

ClassifyNames ==
    { <<>>, << <<"G","a","l","a","x","y"," ","B","u","d","s">> >>,
      << <<"i","P","h","o","n","e">> >>, << <<"T","v">> >> }

\* The advertisement of addr with the given optional fields, the service
\* UUID included
FullAdvert(addr, rssi, names, mfgs, uuids) ==
    [addr |-> addr, haveName |-> names # <<>>,
     name |-> IF names # <<>> THEN names[1] ELSE <<>>, rssi |-> rssi,
     haveMfg |-> mfgs # <<>>, mfgData |-> IF mfgs # <<>> THEN mfgs[1] ELSE <<>>,
     haveUUID |-> uuids # <<>>, uuid |-> IF uuids # <<>> THEN uuids[1] ELSE <<>>]

ClassifyAdverts ==
    { FullAdvert(<<"a","1">>, -60, names, mfgs, uuids) :
         names \in ClassifyNames, mfgs \in ClassifyMfgs,
         uuids \in ClassifyUUIDs }

InitClassify == InitWith({"CYD", "HELTEC"}, {StoredFile("absent", <<>>)}, {0})

NextClassify ==
    \/ \E adv \in ClassifyAdverts : onResult(adv)
    \/ pruneStaleDevices
    \/ Tick(DEVICE_TIMEOUT + 1, ClassifyElapsed)

SpecClassify == InitClassify /\ [][NextClassify]_vars

\* ------------------------------------------------------------------------
\* SpecLive: the scan controller of both builds running for ever, with
\* millis() wrapping around.  loop() iterates every few milliseconds and a
\* model time unit stands for seconds, so the clock moves on by one unit
\* only after loop() has run at the present value; the runtime calls
\* loop() again and again and time passes, which the fairness conditions
\* state.  No advertisement arrives: the controller reads nothing of the
\* registry.
\* ------------------------------------------------------------------------

LiveBootTimes == {0, UL_MOD - 1}

InitLive ==
    InitWith({"CYD", "HELTEC"}, {StoredFile("absent", <<>>)}, LiveBootTimes)

\* loop(), called by the Arduino runtime
loopForever ==
    \E work \in 0..MaxWork, wifiConnected \in BOOLEAN, accepted \in BOOLEAN :
       loop(work, wifiConnected, accepted)

\* millis() moves on by one unit after an iteration of loop()
TickAfterLoop ==
    /\ events # <<>>
    /\ events[Len(events)].call = "delay"
    /\ millis' = (millis + 1) % UL_MOD
    /\ events' = <<>>
    /\ UNCHANGED <<serverVars, board, registryVars, whitelistVars, boot, taskVars, scanVars>>

NextLive ==
    \/ loopForever
    \/ TickAfterLoop

SpecLive ==
    InitLive /\ [][NextLive]_vars /\ WF_vars(loopForever) /\ WF_vars(TickAfterLoop)

\* ------------------------------------------------------------------------
\* SpecLoad: the CYD build started from an allow-list file that is absent,
\* cannot be opened, does not parse, parses to no entry, to one, or to
\* more entries than the array holds; the file names the address B2
\* wherever it has content.  No allow-list operation follows: the
\* allow-list stays as loadWhitelist left it.
\* ------------------------------------------------------------------------

LoadAdverts == { BareAdvert(a, -60) : a \in { <<"a","1">>, <<"b","2">> } }

LoadFiles ==
    { StoredFile("absent", <<>>),
      StoredFile("unopenable", << StoredEntry(<<"B","2">>) >>),
      StoredFile("corrupt", << StoredEntry(<<"B","2">>) >>),
      StoredFile("parsed", <<>>),
      StoredFile("parsed", << StoredEntry(<<"B","2">>) >>),
      StoredFile("parsed", << StoredEntry(<<"C","3">>),
                              StoredEntry(<<"D","4">>),
                              StoredEntry(<<"B","2">>) >>) }

InitLoad == InitWith({"CYD"}, LoadFiles, {0})

NextLoad ==
    \/ \E adv \in LoadAdverts : onResult(adv)
    \/ pruneStaleDevices
    \/ \E d \in 1..MaxStep : Tick(d, LoadElapsed)

SpecLoad == InitLoad /\ [][NextLoad]_vars

\* ------------------------------------------------------------------------
\* SpecNames: the CYD build; one address advertises under names in mixed
\* case that hold no listed fragment, one, or several, with and without a
\* service UUID that the table lists, and never with manufacturer data.
\* ------------------------------------------------------------------------

NamesNames ==
    { <<>>,
      << <<"T","v">> >>,
      << <<"G","a","l","a","x","y"," ","B","u","d","s">> >>,
      << <<"G","A","L","A","X","Y"," ","S","9">> >>,
      << <<"A","i","r","P","o","d","s"," ","i","P","h","o","n","e">> >>,
      << <<"i","P","h","o","n","e"," ","A","i","r","P","o","d","s">> >>,
      << <<"m","y","T","i","l","e">> >>,
      << <<"A","I","R","T","A","G">> >>,
      << <<"W","a","t","c","h"," ","t","i","l","e">> >>,
      << <<"T","i","l","e"," ","P","i","x","e","l">> >> }

NamesUUIDs == { <<>>, << <<"0","0","1","8","1","2","-">> >> }

NamesAdverts ==
    { FullAdvert(<<"a","1">>, -60, names, <<>>, uuids) :
         names \in NamesNames, uuids \in NamesUUIDs }

InitNames == InitWith({"CYD"}, {StoredFile("absent", <<>>)}, {0})

NextNames ==
    \/ \E adv \in NamesAdverts : onResult(adv)
    \/ pruneStaleDevices
    \/ Tick(DEVICE_TIMEOUT + 1, NamesElapsed)

SpecNames == InitNames /\ [][NextNames]_vars

\* ------------------------------------------------------------------------
\* Properties
\* ------------------------------------------------------------------------

\* The tracked entries: the indices below deviceCount
Tracked == 0..(deviceCount - 1)

\* The addresses of the tracked entries
TrackedMacs == { devices[i].mac : i \in Tracked }

\* The last handler removed an entry by the given route
Removed(route) == \E k \in 1..Len(events) : events[k].call = route

\* C1: after any sequence of observations, sweeps and allow-list additions
\* and removals, in either build, deviceCount is between 0 and
\* MAX_TRACKED_DEVICES inclusive.
DeviceCountInRange == deviceCount \in 0..MAX_TRACKED_DEVICES

\* C1 witness: a full registry right after an observation evicted an entry
\* to stay within the capacity, with an address on the allow-list
DeviceCountAtCapacity ==
    /\ deviceCount = MAX_TRACKED_DEVICES
    /\ Removed("evict")
    /\ whitelistCount > 0

\* C2: with observations and sweeps running one at a time, no two tracked
\* entries hold the same address.
OneEntryPerAddress ==
    \A i \in Tracked : \A j \in Tracked :
        i # j => devices[i].mac # devices[j].mac

\* C2 witness: an address was observed again after another entry had been
\* added behind it, and was merged into its entry
DuplicateMerged ==
    /\ deviceCount >= 2
    /\ events = <<>>
    /\ \E i \in Tracked : \E j \in Tracked :
          i < j /\ SubUL(devices[i].lastSeen, devices[j].lastSeen) \in 1..MaxElapsed

\* The tracked entries the sweep at the current millis() must drop
Expired == { i \in Tracked : SubUL(millis, devices[i].lastSeen) > DEVICE_TIMEOUT }

\* C6: a sweep at time now removes exactly the tracked entries with
\* now - lastSeen > DEVICE_TIMEOUT: their addresses are no longer tracked,
\* every other entry (an age equal to DEVICE_TIMEOUT included) is still
\* tracked with all its fields as they were, and deviceCount drops by the
\* number of entries removed.
SweepRemovesExactlyExpired ==
    [][pruneStaleDevices =>
          /\ deviceCount' = deviceCount - Cardinality(Expired)
          /\ { devices'[k] : k \in 0..(deviceCount' - 1) }
                = { devices[i] : i \in Tracked \ Expired }
          /\ \A i \in Expired :
                \A k \in 0..(deviceCount' - 1) : devices'[k].mac # devices[i].mac]_vars

\* C6 witness: a sweep has just removed an entry and kept one whose age is
\* exactly DEVICE_TIMEOUT
SweepKeptEntryAtTimeout ==
    /\ Removed("prune")
    /\ \E i \in Tracked : SubUL(millis, devices[i].lastSeen) = DEVICE_TIMEOUT

\* The radio delivers one of adverts, from an address that is not tracked,
\* while the registry is full
FullInsert(adverts) ==
    /\ deviceCount = MAX_TRACKED_DEVICES
    /\ \E adv \in adverts : toUpperCase(adv.addr) \notin TrackedMacs /\ onResult(adv)

\* The tracked entries with the smallest lastSeen
Oldest == { i \in Tracked : \A j \in Tracked : devices[i].lastSeen <= devices[j].lastSeen }

\* C8: in the HELTEC build, observing an untracked address while the
\* registry is full removes the entry with the smallest lastSeen, the one
\* at the lowest index among those tied for it, and no other entry.
OldestActivityEvicted ==
    [][(board = "HELTEC" /\ FullInsert(Adverts)) =>
          \A i \in Tracked :
              (devices[i].mac \notin TrackedMacs')
                 <=> (i \in Oldest /\ \A j \in Oldest : i <= j)]_vars

\* C8 witness: the HELTEC build has just evicted the entry in the middle of
\* a full registry
HeltecEvictedMiddle ==
    /\ board = "HELTEC"
    /\ deviceCount = MAX_TRACKED_DEVICES
    /\ \E k \in 1..Len(events) : events[k].call = "evict" /\ events[k].index = 1

\* How many of the calls the last handler made are call(mac)
Calls(evs, call, mac) ==
    Cardinality({ k \in 1..Len(evs) : evs[k].call = call /\ evs[k].mac = mac })

\* The addresses whose registry entry the step creates
Created == TrackedMacs' \ TrackedMacs

\* C10: in the CYD build the unknown-device alert (alertUnknownDevice and
\* sendWebhookAlert) fires once in the step that creates the registry entry
\* of an address that is not on the allow-list, and in no other step: not
\* when the address is observed again, and again only when the entry has
\* been removed by a sweep or an eviction and is created anew.
UnknownAlertOncePerEntry ==
    [][board = "CYD" =>
          /\ \A m \in Created :
                Calls(events', "sendWebhookAlert", m)
                   = (IF isDeviceKnown(m) THEN 0 ELSE 1)
          /\ \A k \in 1..Len(events') :
                events'[k].call = "sendWebhookAlert" => events'[k].mac \in Created
          /\ Calls(events', "alertUnknownDevice", <<>>)
                = Cardinality({ m \in Created : ~isDeviceKnown(m) })]_vars

\* C10 witness: the entry of an address that is not on the allow-list has
\* raised its alert and has since been observed again without one, while
\* another address is on the allow-list
AlertedEntryObservedAgain ==
    /\ board = "CYD"
    /\ whitelistCount > 0
    /\ events = <<>>
    /\ \E i \in Tracked :
          /\ devices[i].alertSent
          /\ ~devices[i].isKnown
          /\ devices[i].lastSeen # devices[i].firstSeen

\* The text "Unknown" in the representation of the given field
Sentinel(field) == IF field = "name" THEN UnknownName ELSE "Unknown"

\* What processDevice of the running build passes on for the given field
Incoming(adv, field) ==
    CASE field = "name" -> advertisedName(adv)
      [] field = "deviceType" ->
            IF board = "CYD" THEN detectDeviceType(adv) ELSE detectDeviceTypeHeltec(adv)
      [] field = "manufacturer" ->
            IF board = "CYD" THEN detectManufacturer(adv) ELSE detectManufacturerHeltec(adv)

MergedFields == {"name", "deviceType", "manufacturer"}

\* The radio delivers adv, whose address is tracked
Reobserved(adv) == toUpperCase(adv.addr) \in TrackedMacs /\ onResult(adv)

\* C4: observing an address that is already tracked leaves deviceCount
\* unchanged and never replaces a stored name, device type or manufacturer
\* that is not "Unknown" with "Unknown".
ReobservationKeepsKnownFields ==
    [][(\E adv \in MergeAdverts : Reobserved(adv)) =>
          /\ deviceCount' = deviceCount
          /\ \A i \in Tracked : \A f \in MergedFields :
                devices[i][f] # Sentinel(f) => devices'[i][f] # Sentinel(f)]_vars

\* C4 witness: an entry with a name, a device type and a manufacturer has
\* just merged an advertisement that carried none of them (the bare
\* advertisements are the ones with this signal strength)
KnownFieldsSurvivedBareAdvert ==
    /\ events = <<>>
    /\ \E i \in Tracked :
          /\ devices[i].rssi = -70
          /\ \A f \in MergedFields : devices[i][f] # Sentinel(f)

\* C5: on re-observation of a tracked address, in either build, each of
\* name, device type and manufacturer takes the incoming value if and only
\* if the incoming value is not "Unknown" and the stored one is "Unknown";
\* otherwise it keeps the stored value.
FillInIffUnknown ==
    [][\A adv \in MergeAdverts : Reobserved(adv) =>
          \A i \in Tracked : devices[i].mac = toUpperCase(adv.addr) =>
              \A f \in MergedFields :
                  devices'[i][f] =
                      IF Incoming(adv, f) # Sentinel(f) /\ devices[i][f] = Sentinel(f)
                      THEN Incoming(adv, f)
                      ELSE devices[i][f]]_vars

\* The fill-in rule as the CYD build alone keeps it
FillInIffUnknownCYD ==
    [][board = "CYD" => (\A adv \in MergeAdverts : Reobserved(adv) =>
          \A i \in Tracked : devices[i].mac = toUpperCase(adv.addr) =>
              \A f \in MergedFields :
                  devices'[i][f] =
                      IF Incoming(adv, f) # Sentinel(f) /\ devices[i][f] = Sentinel(f)
                      THEN Incoming(adv, f)
                      ELSE devices[i][f])]_vars

\* The tracked entries with the lowest signal strength
Weakest == { i \in Tracked : \A j \in Tracked : devices[i].rssi <= devices[j].rssi }

\* Observing an untracked address removes the entry at index v and no other
OnlyVictim(v) ==
    /\ devices[v].mac \notin TrackedMacs'
    /\ \A i \in Tracked \ {v} : devices[i].mac \in TrackedMacs'

\* C7: in the CYD build, observing an untracked address while the registry
\* is full removes the entry whose signal strength is the minimum over all
\* entries, whatever the signs of the signal strengths, and among the
\* entries tied for the minimum the one first seen earliest.
WeakestSignalEvicted ==
    [][(board = "CYD" /\ FullInsert(EvictAdverts)) =>
          \E v \in Weakest :
              /\ OnlyVictim(v)
              /\ \A j \in Weakest : devices[v].firstSeen <= devices[j].firstSeen]_vars

\* The same with every tracked signal strength negative
WeakestSignalEvictedBelowZero ==
    [][(board = "CYD" /\ FullInsert(EvictAdverts)
          /\ \A i \in Tracked : devices[i].rssi < 0) =>
          \E v \in Weakest :
              /\ OnlyVictim(v)
              /\ \A j \in Weakest : devices[v].firstSeen <= devices[j].firstSeen]_vars

\* C9: observing an untracked address while deviceCount is
\* MAX_TRACKED_DEVICES removes exactly one tracked entry and inserts the
\* new one: deviceCount is MAX_TRACKED_DEVICES afterwards, the new address
\* is tracked, and every earlier entry but the one victim is still tracked
\* with all its fields as they were.
InsertAtCapacityReplacesOne ==
    [][\A adv \in EvictAdverts :
          (/\ deviceCount = MAX_TRACKED_DEVICES
           /\ toUpperCase(adv.addr) \notin TrackedMacs
           /\ onResult(adv)) =>
              /\ deviceCount' = MAX_TRACKED_DEVICES
              /\ toUpperCase(adv.addr) \in TrackedMacs'
              /\ \E v \in Tracked :
                    /\ devices[v].mac \notin TrackedMacs'
                    /\ { devices'[k] : k \in { n \in Tracked' :
                                devices'[n].mac # toUpperCase(adv.addr) } }
                          = { devices[i] : i \in Tracked \ {v} }]_vars

\* C9 witness: the CYD build has just evicted the entry in the middle of a
\* full registry and logged the entry it inserted
EvictedMiddleAndInserted ==
    /\ board = "CYD"
    /\ deviceCount = MAX_TRACKED_DEVICES
    /\ \E k \in 1..Len(events) : events[k].call = "evict" /\ events[k].index = 1
    /\ \E k \in 1..Len(events) :
          events[k].call = "logDeviceToSD"
             /\ events[k].mac = devices[MAX_TRACKED_DEVICES - 1].mac

\* Neither task is inside updateDeviceList or pruneStaleDevices
Quiescent == callback.pc = "idle" /\ sweep.pc = "idle"

\* C3: observations are atomic with respect to the control loop: however
\* the reads and writes of the BLE task's updateDeviceList interleave with
\* those of the loop task's pruneStaleDevices, once both have returned the
\* registry holds one entry per address and every index below deviceCount
\* holds an entry that an observation wrote.
ObserveAtomicUnderInterleaving ==
    Quiescent =>
        /\ deviceCount \in 0..MAX_TRACKED_DEVICES
        /\ OneEntryPerAddress
        /\ \A i \in Tracked : devices[i].mac # <<>>

\* The step is an iteration of loop() that completes a scan cycle: it
\* sweeps the registry and publishes the snapshot
Completes == Calls(events', "pruneStaleDevices", <<>>) > 0

\* The step is an iteration of loop() that asks the radio for a scan
Starts == Calls(events', "startBLEScan", <<>>) > 0

\* C11: at every snapshot publication at scan-cycle completion (CYD build,
\* drawDeviceRow), a tracked device that is not on the allow-list is shown
\* New exactly when the time since it was first seen is below
\* NEW_DEVICE_THRESHOLD at that moment, and Unknown once the threshold has
\* elapsed, whether or not it has been observed since.
NewIffWithinThresholdAtPublication ==
    [][(board = "CYD" /\ Completes) =>
          \A i \in 0..(deviceCount' - 1) :
             ~isDeviceKnown(devices'[i].mac) =>
                /\ statusColor(devices'[i]) = "COLOR_NEW"
                      <=> SubUL(millis, devices'[i].firstSeen)
                             < NEW_DEVICE_THRESHOLD
                /\ statusColor(devices'[i]) = "COLOR_UNKNOWN"
                      <=> SubUL(millis, devices'[i].firstSeen)
                             >= NEW_DEVICE_THRESHOLD]_vars

\* What the CYD build does keep: the isNew flag of an entry tells whether
\* the entry was below the threshold when it was last observed
NewFlagAsOfLastObservation ==
    board = "CYD" =>
        \A i \in Tracked :
           devices[i].isNew
              <=> SubUL(devices[i].lastSeen, devices[i].firstSeen)
                     < NEW_DEVICE_THRESHOLD

\* isDeviceKnown(mac) on the allow-list as the step leaves it
isDeviceKnownAfter(mac) == isKnownFrom(mac, whitelist', whitelistCount', 0)

\* The step is a removeFromWhitelist / addToWhitelist that took effect
RemovedFromWhitelist == whitelistCount' < whitelistCount

AddedToWhitelist == whitelistCount' > whitelistCount

\* The row handleTouch passed to the allow-list operation of the step
TouchedMac(i) == devices[i].mac

\* The trust flag of every tracked entry agrees with the allow-list after
\* the step, a removal leaves no entry matching the address of the row, an
\* addition leaves one, and both call saveWhitelist once
TrustStep ==
    /\ \A i \in 0..(deviceCount' - 1) :
          devices'[i].isKnown = isDeviceKnownAfter(devices'[i].mac)
    /\ RemovedFromWhitelist =>
          /\ \E i \in Tracked :
                /\ devices[i].isKnown /\ ~devices'[i].isKnown
                /\ ~isDeviceKnownAfter(TouchedMac(i))
          /\ Calls(events', "saveWhitelist", <<>>) = 1
    /\ AddedToWhitelist =>
          /\ \E i \in Tracked :
                /\ ~devices[i].isKnown /\ devices'[i].isKnown
                /\ isDeviceKnownAfter(TouchedMac(i))
          /\ Calls(events', "saveWhitelist", <<>>) = 1

\* C12: starting from any loaded allow-list, after any sequence of
\* observations, sweeps, addToWhitelist and removeFromWhitelist the isKnown
\* flag of every tracked device equals isDeviceKnown(mac) on the current
\* allow-list; after a removal the address matches no allow-list entry,
\* after a successful addition it matches one, and each successful addition
\* or removal is followed by saveWhitelist.
TrustFlagMatchesAllowlist == [][TrustStep]_vars

\* No two entries of the allow-list hold the same address in any case
AllowlistWithoutDuplicates ==
    \A j, k \in 0..(whitelistCount - 1) :
       toUpperCase(whitelist[j].mac) = toUpperCase(whitelist[k].mac) => j = k

\* The trust flag of every tracked entry agrees with the allow-list
TrustFlagsAgree ==
    \A i \in Tracked : devices[i].isKnown = isDeviceKnown(devices[i].mac)

\* What the CYD build does keep: a step from a state whose flags agree and
\* whose allow-list holds no address twice is as C12 describes it
TrustFlagMatchesAllowlistWithoutDuplicates ==
    [][(AllowlistWithoutDuplicates /\ TrustFlagsAgree) => TrustStep]_vars

\* Two addresses are equal when letter case is ignored
SameIgnoringCase(a, b) ==
    /\ Len(a) = Len(b)
    /\ \A k \in 1..Len(a) : UpperChar(a[k]) = UpperChar(b[k])

\* Addresses in both cases to ask isDeviceKnown about
QueryMacs ==
    { <<"a","1">>, <<"A","1">>, <<"b","2">>, <<"B","2">>, <<"C","3">>,
      <<"k">>, <<"A">>, <<"A","1","1">> }

\* C13: isDeviceKnown(mac) is true exactly when the address of some entry
\* of the allow-list equals mac with letter case ignored; the names and
\* the types of the entries have no part in it.
KnownIffAddressOnAllowlist ==
    \A q \in QueryMacs :
       isDeviceKnown(q)
          <=> \E k \in 0..(whitelistCount - 1) :
                 SameIgnoringCase(whitelist[k].mac, q)

\* The address B2 is tracked as known through an entry stored in lower
\* case only
KnownThroughOtherCase ==
    /\ \E k \in 0..(whitelistCount - 1) : whitelist[k].mac = <<"b","2">>
    /\ \A k \in 0..(whitelistCount - 1) : whitelist[k].mac # <<"B","2">>
    /\ \E i \in Tracked : devices[i].mac = <<"B","2">> /\ devices[i].isKnown

\* The radio delivers adv from an address that is not tracked: the step
\* creates the entry of the address from what adv carries
CreatedFrom(adv) == toUpperCase(adv.addr) \notin TrackedMacs /\ onResult(adv)

\* The entry the step appended
NewEntry == devices'[deviceCount' - 1]

\* The label of the highest-priority rule of detectDeviceType that matches
\* adv: manufacturer identifier, then service UUID, then name fragment
FirstMatchingRule(adv) ==
    IF MfgDataType(adv) # "" THEN MfgDataType(adv)
    ELSE IF ServiceUUIDType(adv) # "" THEN ServiceUUIDType(adv)
    ELSE IF NameType(adv) # "" THEN NameType(adv)
    ELSE "Unknown"

\* C14: detectDeviceType returns the result of the first rule that matches,
\* in the order manufacturer identifier (the first two bytes, little-endian),
\* service UUID table, name fragments; manufacturer data shorter than two
\* bytes, an unlisted identifier or a UUID with no table match falls through
\* to the next rule, and with no rule matching the type is "Unknown".
TypeFromFirstMatchingRule ==
    [][\A adv \in ClassifyAdverts :
          CreatedFrom(adv) => NewEntry.deviceType = FirstMatchingRule(adv)]_vars

\* What the CYD build does keep: C14 as stated
TypeFromFirstMatchingRuleCYD ==
    [][board = "CYD" =>
          \A adv \in ClassifyAdverts :
             CreatedFrom(adv) => NewEntry.deviceType = FirstMatchingRule(adv)]_vars

\* What the HELTEC build does keep: the manufacturer-identifier rule alone
TypeFromManufacturerRuleHeltec ==
    [][board = "HELTEC" =>
          \A adv \in ClassifyAdverts :
             CreatedFrom(adv) =>
                NewEntry.deviceType =
                   (IF MfgDataType(adv) \in {"Apple", "AirPods", "iBeacon",
                                            "AirDrop", "AirPlay", "AirTag"}
                    THEN "Apple"
                    ELSE IF MfgDataType(adv) \in {"Samsung", "Google"}
                    THEN MfgDataType(adv)
                    ELSE "Unknown")]_vars

\* The manufacturer identifier adv carries, or -1 when it carries no
\* manufacturer data or less than two bytes of it
IdOf(adv) ==
    IF adv.haveMfg /\ Len(adv.mfgData) >= 2
    THEN adv.mfgData[1] + 256 * adv.mfgData[2]
    ELSE -1

\* The identifiers the manufacturer table of the running build lists
ListedIds ==
    IF board = "CYD" THEN {76, 117, 224, 6, 1143, 135, 343, 784, 89, 79}
    ELSE {76, 117, 224, 6}

\* The manufacturer label the running build gives adv
ManufacturerOf(adv) ==
    IF board = "CYD" THEN detectManufacturer(adv)
    ELSE detectManufacturerHeltec(adv)

\* C15: the manufacturer label is a function of the manufacturer-data
\* identifier alone: identifier 0x004C gives "Apple" whatever the name and
\* the service UUID, and no manufacturer data, less than two bytes of it or
\* an identifier the table does not list gives "Unknown".
ManufacturerFromIdAlone ==
    [][\A adv \in ClassifyAdverts :
          CreatedFrom(adv) =>
             /\ IdOf(adv) = 76 => NewEntry.manufacturer = "Apple"
             /\ IdOf(adv) \notin ListedIds => NewEntry.manufacturer = "Unknown"
             /\ IdOf(adv) \in ListedIds => NewEntry.manufacturer # "Unknown"
             /\ \A other \in ClassifyAdverts :
                   IdOf(other) = IdOf(adv) =>
                      ManufacturerOf(other) = NewEntry.manufacturer]_vars

\* An entry made by Apple, by its identifier, that names itself Galaxy Buds
AppleByIdDespiteName ==
    \E i \in Tracked :
       /\ devices[i].manufacturer = "Apple"
       /\ devices[i].name = <<"G","a","l","a","x","y"," ","B","u","d","s">>

\* The step is one iteration of loop()
LoopTick ==
    \E work \in 0..MaxWork, wifiConnected \in BOOLEAN, accepted \in BOOLEAN :
       loop(work, wifiConnected, accepted)

\* A scan cycle has completed since setup(): lastScanTime is no longer
\* the value setup() gave it
HasScanned == lastScanTime # setupLastScanTime(boot)

\* C16, as the claim states it: the controller leaves Idle and requests a
\* scan at the first loop tick at which the time elapsed since the previous
\* scan start has reached SCAN_INTERVAL, so that consecutive scan starts
\* are one SCAN_INTERVAL apart.
ScanStartsIntervalAfterPreviousStart ==
    [][(LoopTick /\ ~scanInProgress /\ HasScanned) =>
          (Starts <=> SubUL(millis, scanStartTime) >= SCAN_INTERVAL)]_vars

\* C16, amended: the controller leaves Idle and requests a scan at the
\* first loop tick at which the time elapsed since lastScanTime (the time
\* the previous scan cycle completed, or the boot time set back by
\* SCAN_INTERVAL) has reached SCAN_INTERVAL, and at no tick before; a scan
\* therefore starts no sooner than SCAN_DURATION * 1000 + 500 ms plus
\* SCAN_INTERVAL after the previous scan start.
ScanStartsIntervalAfterCompletion ==
    [][LoopTick =>
          /\ ~scanInProgress =>
                (Starts <=> SubUL(millis, lastScanTime) >= SCAN_INTERVAL)
          /\ scanInProgress => ~Starts
          /\ Starts => /\ scanInProgress'
                       /\ scanStartTime' = millis
                       /\ HasScanned =>
                             SubUL(millis, scanStartTime)
                                >= SCAN_DURATION + SCAN_INTERVAL]_vars

\* A second scan has just been requested, SCAN_INTERVAL after the previous
\* cycle completed
SecondScanRequested ==
    /\ HasScanned
    /\ scanInProgress
    /\ Calls(events, "startBLEScan", <<>>) = 1
    /\ scanStartTime = millis
    /\ SubUL(millis, lastScanTime) = SCAN_INTERVAL

\* C17: while a scan is in progress the completion step of loop() is never
\* taken before millis() - scanStartTime has reached SCAN_DURATION * 1000 +
\* 500 ms, and it is taken at the first loop tick at or after that moment;
\* a tick that finds no scan in progress completes none.
CompletionAfterScanWindow ==
    [][LoopTick =>
          /\ scanInProgress =>
                (Completes <=> SubUL(millis, scanStartTime) >= SCAN_DURATION)
          /\ ~scanInProgress => ~Completes
          /\ Completes => ~scanInProgress']_vars

\* A scan cycle has just been completed at the very tick its window ended
CompletedAtWindowEnd ==
    /\ ~scanInProgress
    /\ Calls(events, "pruneStaleDevices", <<>>) = 1
    /\ SubUL(lastScanTime, scanStartTime) = SCAN_DURATION

\* The call by which the completion block publishes the snapshot
PublicationCall == IF board = "CYD" THEN "drawDisplay" ELSE "updateDisplay"

\* The last handler called first before second
CalledBefore(evs, first, second) ==
    \E j, k \in 1..Len(evs) :
       j < k /\ evs[j].call = first /\ evs[k].call = second

\* C18: when a scan cycle completes its side effects happen in this order:
\* the sweep, then the snapshot publication, and only then the recording of
\* lastScanTime, which then holds the time after the publication.
CompletionRecordsTimeLast ==
    [][Completes =>
          /\ CalledBefore(events', "pruneStaleDevices", PublicationCall)
          /\ lastScanTime' = millis']_vars

\* What both builds do keep: the sweep precedes the publication, and
\* lastScanTime holds the time at which the completion block was entered
CompletionRecordsTimeFirst ==
    [][Completes =>
          /\ CalledBefore(events', "pruneStaleDevices", PublicationCall)
          /\ lastScanTime' = millis]_vars

\* The order of the completion block, with each handler running alone: a
\* scan is requested only from Idle and leaves the controller scanning;
\* the scanning state is left only by the completion step; that step
\* sweeps once and then publishes once, and what it publishes holds no
\* entry whose inactivity exceeded DEVICE_TIMEOUT at sweep time; no other
\* step sweeps or publishes.
OneSweepThenOnePublicationPerCycle ==
    [][/\ Starts => ~scanInProgress /\ scanInProgress'
       /\ (scanInProgress /\ ~scanInProgress') => Completes
       /\ Completes =>
             /\ scanInProgress /\ ~scanInProgress'
             /\ ~Starts
             /\ Calls(events', "pruneStaleDevices", <<>>) = 1
             /\ Calls(events', PublicationCall, <<>>) = 1
             /\ CalledBefore(events', "pruneStaleDevices", PublicationCall)
             /\ ~CalledBefore(events', PublicationCall, "pruneStaleDevices")
             /\ \A i \in 0..(deviceCount' - 1) :
                   SubUL(millis, devices'[i].lastSeen) <= DEVICE_TIMEOUT
       /\ ~Completes =>
             /\ Calls(events', PublicationCall, <<>>) = 0
             /\ \A k \in 1..Len(events') : events'[k].call # "prune"]_vars

\* The step in which pruneStaleDevices returns to the completion block of
\* loop(), which publishes the registry next
SweepReturns == sweep.pc # "idle" /\ sweep'.pc = "idle"

\* C19: in every scan cycle the one publication follows the one sweep of
\* the cycle, so that the published registry holds no entry whose
\* inactivity exceeded DEVICE_TIMEOUT at sweep time: when the sweep returns,
\* every tracked entry was last seen no more than DEVICE_TIMEOUT before the
\* currentTime the sweep read (times counted from boot, so that an entry
\* seen after the sweep began is not taken for an old one).
PublishedAfterSweepHoldsNoExpiredEntry ==
    [][SweepReturns =>
          \A i \in 0..(deviceCount' - 1) :
             SubUL(devices'[i].lastSeen, boot) + DEVICE_TIMEOUT
                >= SubUL(sweep.currentTime, boot)]_vars

\* No scan has been requested since setup(): the controller is Idle and
\* lastScanTime is what setup() stored
BeforeFirstScan == ~scanInProgress /\ ~HasScanned

\* C20: the controller starts Idle and requests a scan at the very first
\* loop tick after setup(), whatever the value of the millisecond counter
\* at boot, the values below SCAN_INTERVAL included, for which
\* lastScanTime = millis() - SCAN_INTERVAL wraps around.
FirstTickRequestsScan ==
    [][(BeforeFirstScan /\ LoopTick) =>
          /\ Starts
          /\ scanInProgress'
          /\ scanStartTime' = millis]_vars

\* The first loop tick has requested a scan after a boot at a counter value
\* below SCAN_INTERVAL, with lastScanTime wrapped to the top of the range
FirstScanAfterWrappedSetup ==
    /\ boot < SCAN_INTERVAL
    /\ lastScanTime = UL_MOD - SCAN_INTERVAL + boot
    /\ scanInProgress
    /\ Calls(events, "startBLEScan", <<>>) = 1
    /\ scanStartTime = millis

\* C21: when the radio refuses a scan (pBLEScan->start returns false) the
\* controller neither fails nor blocks: the iteration of loop() that made
\* the request leaves the registry and the allow-list as they were and the
\* controller in its scanning state; the cycle completes at the first tick
\* after the scan window like any other; and the next request is made at
\* the first tick at which SCAN_INTERVAL has elapsed since that completion.
RefusedStartIsRetried ==
    [][LoopTick =>
          /\ (Starts /\ ~radioStarted') =>
                /\ UNCHANGED <<registryVars, whitelistVars>>
                /\ scanInProgress'
                /\ scanStartTime' = millis
          /\ (scanInProgress /\ ~radioStarted) =>
                (Completes <=> SubUL(millis, scanStartTime) >= SCAN_DURATION)
          /\ (~scanInProgress /\ ~radioStarted /\ HasScanned) =>
                (Starts <=> SubUL(millis, lastScanTime) >= SCAN_INTERVAL)]_vars

\* A scan the radio had refused has been requested anew, SCAN_INTERVAL
\* after the refused cycle completed, and refused again
RefusedStartRetried ==
    /\ HasScanned
    /\ deviceCount = 0
    /\ scanInProgress /\ ~radioStarted
    /\ Calls(events, "startBLEScan", <<>>) = 1
    /\ SubUL(millis, lastScanTime) = SCAN_INTERVAL

\* The last handler was an iteration of loop() that requested a scan
ScanRequested == Calls(events, "startBLEScan", <<>>) = 1

\* The last handler was an iteration of loop() that completed a scan cycle
CycleCompleted == Calls(events, "pruneStaleDevices", <<>>) = 1

\* C22: the scan controller has no terminal and no stuck state: with
\* loop() called again and again and time passing, a scan is requested
\* infinitely often, a scan cycle completes infinitely often, and every
\* cycle that is in progress is eventually completed.
ScansAndCompletionsForever ==
    /\ []<>ScanRequested
    /\ []<>CycleCompleted
    /\ scanInProgress ~> ~scanInProgress

\* A scan cycle has been completed whose window contained the wraparound
\* of millis()
CompletedAcrossWrap ==
    /\ CycleCompleted
    /\ lastScanTime < scanStartTime

\* The smaller of two numbers
Min(a, b) == IF a < b THEN a ELSE b

\* C23: loadWhitelist leaves the allow-list empty (whitelistCount = 0)
\* whenever /whitelist.json is absent, cannot be opened or does not parse,
\* and in every case leaves at most 50 entries (WHITELIST_MAX), the first
\* ones of the file; after an empty load no tracked device is Known and
\* every new entry raises the unknown-device alert.
LoadFailureGivesEmptyAllowlist ==
    /\ whitelistCount <= WHITELIST_MAX
    /\ whitelistFile.status = "parsed" =>
          /\ whitelistCount = Min(Len(whitelistFile.entries), WHITELIST_MAX)
          /\ \A k \in 0..(whitelistCount - 1) :
                whitelist[k] = whitelistFile.entries[k + 1]
    /\ whitelistFile.status # "parsed" =>
          /\ whitelistCount = 0
          /\ \A i \in Tracked : ~devices[i].isKnown /\ devices[i].alertSent
          /\ \A q \in QueryMacs : ~isDeviceKnown(q)

\* The address a file that does not parse names is tracked, and not Known
CorruptFileAddressNotKnown ==
    /\ whitelistFile.status = "corrupt"
    /\ \E k \in 1..Len(whitelistFile.entries) :
          whitelistFile.entries[k].mac = <<"B","2">>
    /\ \E i \in Tracked : devices[i].mac = <<"B","2">> /\ ~devices[i].isKnown

\* fragment occurs in name when letter case is ignored
HasFragment(name, fragment) ==
    \E p \in 0..(Len(name) - Len(fragment)) :
       \A k \in 1..Len(fragment) : LowerChar(name[p + k]) = fragment[k]

\* The rows of the fragment list whose fragment occurs in name
MatchingRows(name) ==
    { r \in 1..Len(NameFragments) : HasFragment(name, NameFragments[r][1]) }

\* The radio delivers adv from an untracked address, and neither the
\* manufacturer rule nor the service UUID rule of detectDeviceType matches
TypedByName(adv) ==
    /\ MfgDataType(adv) = ""
    /\ ServiceUUIDType(adv) = ""
    /\ CreatedFrom(adv)

\* C24: when the type is decided by the name rule, the name is matched
\* against the ordered fragment list as a case-insensitive substring and
\* the first fragment that matches decides: a name with "galaxy buds" is
\* "Audio" and not "Phone", a name with "airpods" and "iphone" is "Audio",
\* a name with "tile" or "airtag" and no earlier fragment is "Tracker",
\* and a name with no fragment is "Unknown".
NameRuleFirstFragmentWins ==
    [][\A adv \in NamesAdverts :
          TypedByName(adv) =>
             LET rows == MatchingRows(adv.name)
                 first == CHOOSE r \in rows : \A q \in rows : r <= q
                 has(f) == HasFragment(adv.name, f)
             IN  /\ rows = {} => NewEntry.deviceType = "Unknown"
                 /\ rows # {} => NewEntry.deviceType = NameFragments[first][2]
                 /\ has(<<"g","a","l","a","x","y"," ","b","u","d","s">>) =>
                       NewEntry.deviceType = "Audio"
                 /\ (has(<<"a","i","r","p","o","d","s">>)
                        /\ has(<<"i","p","h","o","n","e">>)) =>
                       NewEntry.deviceType = "Audio"
                 /\ ((has(<<"t","i","l","e">>) \/ has(<<"a","i","r","t","a","g">>))
                        /\ \A r \in rows : r >= 10) =>
                       NewEntry.deviceType = "Tracker"]_vars

\* An entry named Galaxy Buds is typed Audio, one named for an iPhone and
\* AirPods is typed Audio, and one named myTile is typed Tracker
NamedEntriesTyped ==
    \E i \in Tracked :
       \/ /\ devices[i].name = <<"G","a","l","a","x","y"," ","B","u","d","s">>
          /\ devices[i].deviceType = "Audio"
       \/ /\ devices[i].name = <<"i","P","h","o","n","e"," ","A","i","r","P","o","d","s">>
          /\ devices[i].deviceType = "Audio"
       \/ /\ devices[i].name = <<"m","y","T","i","l","e">>
          /\ devices[i].deviceType = "Tracker"

\* ---- C25 ----

\* The fields the found branch of updateDeviceList may write
ObservationFields == {"rssi", "lastSeen", "isNew", "name", "deviceType", "manufacturer"}

\* C25: observing an already tracked address changes nothing but the rssi,
\* lastSeen, isNew, name, device type and manufacturer of the entry with that
\* address: its address, firstSeen, isKnown and alertSent, the number of
\* entries, every other slot and the allow-list are unchanged.
ReobservationFrame ==
    [][\A adv \in MergeAdverts : Reobserved(adv) =>
          /\ deviceCount' = deviceCount
          /\ UNCHANGED whitelistVars
          /\ \A i \in DeviceSlots :
                IF i \in Tracked /\ devices[i].mac = toUpperCase(adv.addr)
                THEN \A f \in (DOMAIN devices[i]) \ ObservationFields :
                        devices'[i][f] = devices[i][f]
                ELSE devices'[i] = devices[i]]_vars

\* C25 witness: next to another tracked entry, an entry first seen earlier
\* than it was last seen has been observed again at the current time, after
\* the new-device window
ReobservedAfterNewWindow ==
    /\ board = "CYD"
    /\ deviceCount = 2
    /\ \E i \in Tracked :
          /\ devices[i].lastSeen = millis
          /\ devices[i].firstSeen # millis
          /\ ~devices[i].isNew
          /\ devices[i].alertSent
    /\ events = <<>>

\* ---- C26 ----

\* millis() has not passed the wrap of its counter since boot
NoWraparound == boot + Elapsed < UL_MOD

\* The entries are in order of firstSeen, earliest first
OrderedByFirstSeen ==
    \A i \in Tracked : \A j \in Tracked :
        i < j => devices[i].firstSeen <= devices[j].firstSeen

\* The index of the entry with address mac
IndexOf(devs, cnt, mac) == CHOOSE i \in 0..(cnt - 1) : devs[i].mac = mac

\* The step keeps the entries that survive it in their relative order and
\* puts an entry it creates behind all of them
OrderPreserved ==
    /\ \A a \in TrackedMacs \cap TrackedMacs' :
       \A b \in TrackedMacs \cap TrackedMacs' :
          IndexOf(devices, deviceCount, a) < IndexOf(devices, deviceCount, b)
              => IndexOf(devices', deviceCount', a) < IndexOf(devices', deviceCount', b)
    /\ \A a \in Created : IndexOf(devices', deviceCount', a) = deviceCount' - 1

\* C26: eviction and sweep keep the surviving entries in their relative
\* order and a new entry is appended last, so as long as millis() has not
\* wrapped the entries are ordered by non-decreasing firstSeen.
RegistryOrderedByFirstSeen ==
    /\ [][OrderPreserved]_vars
    /\ [](NoWraparound => OrderedByFirstSeen)

\* C26 witness: before the wrap, the entry in the middle of a full registry
\* has just been evicted and the new entry, first seen at the current time,
\* is last, behind two entries first seen at two earlier times
OrderedAfterEviction ==
    /\ NoWraparound
    /\ deviceCount = MAX_TRACKED_DEVICES
    /\ devices[MAX_TRACKED_DEVICES - 1].firstSeen = millis
    /\ devices[0].firstSeen < devices[1].firstSeen
    /\ devices[1].firstSeen < millis
    /\ \E k \in 1..Len(events) : events[k].call = "evict" /\ events[k].index = 1

\* ---- C27 ----

\* The step is the long press of handleTouch taking effect on the allow-list
LongPressTookEffect ==
    touch.pc = "pressed" /\ (AddedToWhitelist \/ RemovedFromWhitelist)

\* The addresses of the entries whose isKnown flag the step changes
TrustFlagChanged ==
    { devices[i].mac : i \in { k \in Tracked : devices'[k].isKnown # devices[k].isKnown } }

LongPressActsOnPressedDeviceIfRowKept ==
    [][(LongPressTookEffect /\ devices[touch.deviceIndex].mac = touch.pressed) =>
          /\ TrustFlagChanged \subseteq {touch.pressed}
          /\ AddedToWhitelist =>
                whitelist'[whitelistCount].mac = touch.pressed
          /\ RemovedFromWhitelist => ~isDeviceKnownAfter(touch.pressed)]_vars

\* ---- C28 ----

\* Some allow-list entry has the address mac, letter case aside
OnAllowlist(mac) ==
    \E k \in 0..(whitelistCount - 1) : SameIgnoringCase(whitelist[k].mac, mac)

\* The calls of the step that notify of a device: the unknown-device alert
\* (buzzer and webhook) and the new-device beep
UnknownAlerts(mac) ==
    << Calls(events', "alertUnknownDevice", <<>>), Calls(events', "sendWebhookAlert", mac) >>

NewBeeps == Calls(events', "alertNewDevice", <<>>)

\* C28: the step that creates a device entry emits exactly one notification
\* for it, the unknown-device alert (buzzer and webhook) if its address is
\* not on the allow-list and the new-device beep if it is; the entry's
\* alertSent is true exactly in the first case, and no other entry's
\* alertSent changes.
OneNotificationPerCreatedEntry ==
    [][\A mac \in Created :
          LET i == IndexOf(devices', deviceCount', mac)
          IN  /\ IF OnAllowlist(mac)
                 THEN UnknownAlerts(mac) = <<0, 0>> /\ NewBeeps = 1
                 ELSE UnknownAlerts(mac) = <<1, 1>> /\ NewBeeps = 0
              /\ devices'[i].alertSent = ~OnAllowlist(mac)
              /\ \A k \in 0..(deviceCount' - 1) : \A j \in Tracked :
                    (k # i /\ devices'[k].mac = devices[j].mac)
                        => devices'[k].alertSent = devices[j].alertSent]_vars

\* C28 witness: an entry for an allow-listed address has just been created
\* with the new-device beep and without the alert flag, behind an entry that
\* was alerted as unknown
BeepedForKnownBehindAlerted ==
    /\ deviceCount = 2
    /\ devices[1].isKnown /\ ~devices[1].alertSent
    /\ ~devices[0].isKnown /\ devices[0].alertSent
    /\ Calls(events, "alertNewDevice", <<>>) = 1
    /\ Calls(events, "alertUnknownDevice", <<>>) = 0
    /\ Calls(events, "logDeviceToSD", devices[1].mac) = 1

\* ---- C29 ----

\* C29: startBLEScan is never called while a scan cycle is in progress, and
\* scanInProgress is true exactly from a call of startBLEScan to the
\* completion step of that cycle: a step raises the flag if and only if it
\* requests a scan, lowers it if and only if it completes a cycle, and only
\* a cycle in progress is completed; so a completion step lies between any
\* two requests.
NoScanRequestDuringCycle ==
    [][/\ Starts => ~scanInProgress
       /\ Completes => (scanInProgress /\ ~Starts)
       /\ scanInProgress' = ((scanInProgress \/ Starts) /\ ~Completes)]_vars

\* C29 witness: after an earlier cycle has completed, loop() has just run
\* with a scan in progress and with the interval since lastScanTime elapsed,
\* and has neither requested a scan nor completed the cycle
LoopTickedDuringSecondScan ==
    /\ HasScanned
    /\ scanInProgress
    /\ scanDue(millis, lastScanTime)
    /\ Len(events) = 1
    /\ events[1].call = "delay"

\* ---- C30 ----

\* The step is pruneStaleDevices finding the entry at its index i stale
SweepFindsStale == sweep.pc = "check" /\ sweep'.pc = "shift"

\* C30: a sweep never removes an entry that was observed within
\* DEVICE_TIMEOUT of the present value of millis(), an entry whose lastSeen
\* the radio callback wrote after the sweep read currentTime included.
SweepKeepsFreshlyObserved ==
    [][SweepFindsStale =>
          SubUL(millis, devices[sweep.i].lastSeen) > DEVICE_TIMEOUT]_vars

\* With no entry last seen after the currentTime the sweep read, the sweep
\* finds stale only entries not observed within DEVICE_TIMEOUT of millis()
SweepKeepsFreshlyObservedBeforeSweep ==
    [][(SweepFindsStale
        /\ SubUL(devices[sweep.i].lastSeen, boot) <= SubUL(sweep.currentTime, boot)) =>
          SubUL(millis, devices[sweep.i].lastSeen) > DEVICE_TIMEOUT]_vars

\* ---- C31 ----

\* The step is the return of an updateDeviceList that inserted a new entry,
\* with no sweep under way
InsertReturns == callback.pc = "alert" /\ sweep.pc = "idle"

\* C31: no observation is lost to a concurrent sweep: when an
\* updateDeviceList that inserted an untracked address returns and the sweep
\* it was interleaved with has returned too, the address is tracked, in one
\* entry.
InsertedAddressTrackedAfterSweep ==
    [][InsertReturns =>
          Cardinality({ i \in 0..(deviceCount' - 1) : devices'[i].mac = callbackMac }) = 1]_vars

\* ---- C32 ----

\* The time since the entry at index i was last observed, modulo the range
\* of millis()
Inactivity(i) == SubUL(millis, devices[i].lastSeen)

\* C32: in the HELTEC build, the entry evicted from a full registry is one
\* that has gone longest without being observed (greatest millis() -
\* lastSeen modulo the range of the counter), also when millis() wrapped
\* around between the observations of the tracked entries.
LeastRecentlyObservedEvicted ==
    [][(board = "HELTEC" /\ FullInsert(Adverts)) =>
          \A i \in Tracked :
              (devices[i].mac \notin TrackedMacs')
                 => \A j \in Tracked : Inactivity(j) <= Inactivity(i)]_vars

\* As long as millis() has not wrapped since boot the evicted entry is one
\* that has gone longest without being observed
LeastRecentlyObservedEvictedBeforeWrap ==
    [][(board = "HELTEC" /\ NoWraparound /\ FullInsert(Adverts)) =>
          \A i \in Tracked :
              (devices[i].mac \notin TrackedMacs')
                 => \A j \in Tracked : Inactivity(j) <= Inactivity(i)]_vars

\* ---- C33 ----

\* addToWhitelist(i) meets one of its three refusals: the index is out of
\* range, the allow-list is full, or the address of the row is on the
\* allow-list already, letter case aside
AddRefused(i) ==
    \/ i < 0 \/ i >= deviceCount
    \/ whitelistCount >= WHITELIST_MAX
    \/ OnAllowlist(devices[i].mac)

\* C33: whitelistCount stays within 0..50 (WHITELIST_MAX) through load, add
\* and remove; addToWhitelist leaves allow-list, persisted file and isKnown
\* flags as they are when the index is out of range, the allow-list is full
\* or the address is on it already, and so an add never puts an address on
\* the allow-list that an entry already has.
AllowlistBoundedAndAddGuarded ==
    /\ [](whitelistCount \in 0..WHITELIST_MAX)
    /\ [][\A i \in -1..MAX_TRACKED_DEVICES : \A opened \in BOOLEAN :
             (addToWhitelist(i, opened) /\ AddRefused(i))
                => UNCHANGED <<whitelistVars, devices>>]_vars
    /\ [][AddedToWhitelist =>
             /\ whitelistCount' = whitelistCount + 1
             /\ ~OnAllowlist(whitelist'[whitelistCount].mac)]_vars

\* C33 witness: an add has just filled the allow-list, and a tracked device
\* that is not on it remains, whose add is refused from here on
AllowlistFilledByAdd ==
    /\ whitelistCount = WHITELIST_MAX
    /\ Calls(events, "alertWhitelistAdded", <<>>) = 1
    /\ \E i \in Tracked : ~OnAllowlist(devices[i].mac)

\* ---- C34 ----

\* The step is a postLogsToServer that builds a payload
Posts == /\ Len(events') > 0
         /\ events'[1].call = "postLogsToServer"
         /\ \E k \in 1..Len(events') : events'[k].call = "devObj"

\* The indices of the registry entries in the payload of the step, in
\* payload order
PostedIndices == [k \in 1..(Len(events') - 1) |-> events'[k + 1].index]

\* C34: the payload of the HELTEC server post holds min(deviceCount, 10)
\* devices (POST_MAX), each a different tracked entry; no entry left out was
\* seen later than one that is in it; the devices are in order of
\* non-increasing lastSeen; and the registry is as it was.
PostCarriesMostRecentlySeen ==
    [][Posts =>
          LET idx == PostedIndices
              sent == { idx[k] : k \in 1..Len(idx) }
          IN  /\ Len(idx) = (IF deviceCount < POST_MAX THEN deviceCount ELSE POST_MAX)
              /\ sent \subseteq Tracked
              /\ Cardinality(sent) = Len(idx)
              /\ \A k \in 1..Len(idx) : events'[k + 1].mac = devices[idx[k]].mac
              /\ \A i \in sent : \A j \in Tracked \ sent :
                    devices[j].lastSeen <= devices[i].lastSeen
              /\ \A k \in 1..Len(idx) : \A l \in 1..Len(idx) :
                    k < l => devices[idx[k]].lastSeen >= devices[idx[l]].lastSeen
              /\ UNCHANGED registryVars]_vars

\* C34 witness: a full registry whose first entry is the one seen last has
\* just been posted: the payload starts with index 0 and leaves out the
\* entry seen earliest, which is not the last of the registry
PostedOutOfRegistryOrder ==
    /\ deviceCount = MAX_TRACKED_DEVICES
    /\ Len(events) = POST_MAX + 1
    /\ events[1].call = "postLogsToServer"
    /\ events[2].index = 0
    /\ events[3].index = 2
    /\ devices[1].lastSeen < devices[2].lastSeen
    /\ devices[2].lastSeen < devices[0].lastSeen

(***************************************************************************)
(* The log server: routing and the API key (server/main.go, handlers.go).  *)
(* Header values and keys are strings, modelled as sequences of            *)
(* one-character strings.                                                  *)
(***************************************************************************)

\* A variant of strings.TrimPrefix that strips the prefix as often as it
\* leads the string
RECURSIVE TrimEveryPrefix(_, _)
TrimEveryPrefix(s, prefix) ==
    IF /\ Len(prefix) > 0
       /\ Len(s) >= Len(prefix)
       /\ SubSeq(s, 1, Len(prefix)) = prefix
    THEN TrimEveryPrefix(SubSeq(s, Len(prefix) + 1, Len(s)), prefix)
    ELSE s

\* strings.HasPrefix
HasPrefix(s, prefix) ==
    /\ Len(s) >= Len(prefix)
    /\ SubSeq(s, 1, Len(prefix)) = prefix

\* strings.TrimPrefix: s without the leading prefix, s itself when it does
\* not start with it
TrimPrefix(s, prefix) ==
    IF HasPrefix(s, prefix)
    THEN SubSeq(s, Len(prefix) + 1, Len(s))
    ELSE s

\* "Bearer "
Bearer == <<"B", "e", "a", "r", "e", "r", " ">>

\* main(): the key is the API_KEY of the environment, and the default when
\* that is empty
configuredKey(env) == IF env = <<>> THEN DefaultKey ELSE env

\* The routes main() registers inside r.Route("/api", ...), behind
\* r.Use(APIKeyAuth(apiKey))
ApiRoutes == {"POST /api/logs", "GET /api/logs", "DELETE /api/logs",
              "GET /api/scanners", "GET /api/stats"}

\* The routes main() registers without the middleware
OpenRoutes == {"GET /health"}

\* The handler the router has for a route
HandlerOf(route) ==
    CASE route = "POST /api/logs"    -> "HandlePostLogs"
      [] route = "GET /api/logs"     -> "HandleGetLogs"
      [] route = "DELETE /api/logs"  -> "HandleClearLogs"
      [] route = "GET /api/scanners" -> "HandleGetScanners"
      [] route = "GET /api/stats"    -> "HandleGetStats"
      [] route = "GET /health"       -> "HandleHealth"

\* The statuses a handler answers with: success, a bad request body, a
\* database error
HandlerStatus == {200, 400, 500}

\* The handler APIKeyAuth(apiKey)(next) returns, serving one request: the
\* request carries the two headers (empty when absent), next answers with
\* status nextStatus when it is called
APIKeyAuth(route, authorization, xApiKey, nextStatus) ==
    LET fromHeader == IF authorization = <<>> THEN xApiKey ELSE authorization
        auth       == TrimPrefix(fromHeader, Bearer)
    IN  /\ response' = IF auth # apiKey
                       THEN [route |-> route, authorization |-> authorization,
                             xApiKey |-> xApiKey, status |-> 401,
                             handler |-> ""]
                       ELSE [route |-> route, authorization |-> authorization,
                             xApiKey |-> xApiKey, status |-> nextStatus,
                             handler |-> HandlerOf(route)]
        /\ UNCHANGED <<apiKey, hubVars, deviceVars>>

\* The router serving a request to one of the /api routes
ServeApi(route, authorization, xApiKey, nextStatus) ==
    /\ route \in ApiRoutes
    /\ APIKeyAuth(route, authorization, xApiKey, nextStatus)

\* The router serving a request to a route outside /api: the handler runs
\* whatever the headers are
ServeOpen(route, authorization, xApiKey) ==
    /\ route \in OpenRoutes
    /\ response' = [route |-> route, authorization |-> authorization,
                    xApiKey |-> xApiKey, status |-> 200,
                    handler |-> HandlerOf(route)]
    /\ UNCHANGED <<apiKey, hubVars, deviceVars>>

(***************************************************************************)
(* SpecAuth: the server started with some API_KEY in its environment,      *)
(* taking requests whose headers are absent, the key, the key behind one   *)
(* or two "Bearer " prefixes, the prefix alone, the prefix in lower case,  *)
(* or another key.                                                         *)
(***************************************************************************)

\* The values API_KEY has in the environment: unset, or a key
AuthEnvironments == {<<>>, <<"k">>}

\* "bearer "
LowerBearer == <<"b", "e", "a", "r", "e", "r", " ">>

\* The values a request header takes, for a server whose key is key
AuthHeaders(key) ==
    {<<>>, key, Bearer \o key, Bearer \o Bearer \o key, Bearer,
     LowerBearer \o key, <<"x">>, Bearer \o <<"x">>}

InitAuth ==
    /\ InitDevice({"CYD"}, {StoredFile("absent", <<>>)}, {0})
    /\ \E env \in AuthEnvironments : apiKey = configuredKey(env)
    /\ response = NoResponse
    /\ InitHub

NextAuth ==
    \/ \E route \in ApiRoutes, authorization \in AuthHeaders(apiKey),
          xApiKey \in AuthHeaders(apiKey), nextStatus \in HandlerStatus :
           ServeApi(route, authorization, xApiKey, nextStatus)
    \/ \E route \in OpenRoutes, authorization \in AuthHeaders(apiKey),
          xApiKey \in AuthHeaders(apiKey) :
           ServeOpen(route, authorization, xApiKey)

SpecAuth == InitAuth /\ [][NextAuth]_vars

\* The credential of a request: its Authorization header, or its X-API-Key
\* header when Authorization is empty, without one leading "Bearer "
Credential(r) ==
    LET header == IF Len(r.authorization) = 0 THEN r.xApiKey
                  ELSE r.authorization
    IN  IF Len(header) >= 7 /\ SubSeq(header, 1, 7) = Bearer
        THEN SubSeq(header, 8, Len(header))
        ELSE header

\* C35: a request to an /api route reaches its handler exactly when its
\* credential (Authorization, or X-API-Key only when Authorization is empty,
\* with one leading "Bearer " stripped) equals the configured key; otherwise
\* it is answered 401 and no handler runs
ApiHandlerRunsOnlyWithKey ==
    response.route \in ApiRoutes =>
        /\ (response.handler # "") <=> (Credential(response) = apiKey)
        /\ response.handler # "" => response.handler = HandlerOf(response.route)
        /\ response.handler = "" => response.status = 401
        /\ response.handler # "" => response.status # 401

\* C35 witness: an /api handler has run for a request without Authorization
\* whose X-API-Key is "Bearer " followed by the key
ApiServedByPrefixedXApiKey ==
    /\ response.route \in ApiRoutes
    /\ response.authorization = <<>>
    /\ response.xApiKey = Bearer \o apiKey
    /\ response.handler = HandlerOf(response.route)

(***************************************************************************)
(* The log server: the WebSocket hub (websocket.go, HandleWebSocket).      *)
(* Every goroutine is a position in ws, hubRun or poster; one action is    *)
(* one channel operation with the statements around it that touch nothing  *)
(* another goroutine reads.  A panic outside an HTTP handler ends the      *)
(* process: no goroutine takes a step once panic is set.                   *)
(***************************************************************************)

\* A variant of the unregister case of Hub.run that closes the channel
\* whether or not the client is still registered
hubUnregisterUnchecked(c) ==
    /\ panic = ""
    /\ hubRun.pc = "select"
    /\ ws[c].readPump = "unregistering"
    /\ clients' = clients \ {c}
    /\ IF send[c].closed
       THEN panic' = "close of closed channel" /\ send' = send
       ELSE send' = [send EXCEPT ![c].closed = TRUE] /\ panic' = panic
    /\ ws' = [ws EXCEPT ![c].readPump = "exited"]
    /\ UNCHANGED <<broadcast, hubRun, poster, apiKey, response, deviceVars>>

\* A variant of the delivery of Hub.run that leaves a client whose buffer
\* is full registered, without the message
hubDeliverKeepSlow(c) ==
    /\ panic = ""
    /\ hubRun.pc = "deliver"
    /\ c \in hubRun.todo
    /\ IF send[c].closed
       THEN panic' = "send on closed channel" /\ UNCHANGED <<send, clients>>
       ELSE IF Len(send[c].buf) < SEND_CAP
       THEN /\ send' = [send EXCEPT ![c].buf = Append(@, hubRun.message)]
            /\ UNCHANGED <<clients, panic>>
       ELSE UNCHANGED <<send, clients, panic>>
    /\ hubRun' = IF hubRun.todo = {c} THEN HubSelect
                 ELSE [hubRun EXCEPT !.todo = @ \ {c}]
    /\ UNCHANGED <<broadcast, ws, poster, apiKey, response, deviceVars>>

\* HandleWebSocket up to hub.register <- client: the connection is
\* upgraded and the client made with an empty send channel; the handler
\* then waits for the hub to receive
HandleWebSocket(c) ==
    /\ panic = ""
    /\ ws[c].handler = "none"
    /\ \A d \in Earlier(c) : ws[d].handler # "none"
    /\ ws' = [ws EXCEPT ![c].handler = "registering"]
    /\ send' = [send EXCEPT ![c] = NoChan]
    /\ UNCHANGED <<clients, broadcast, hubRun, poster, panic, apiKey,
                   response, deviceVars>>

\* Hub.run, case client := <-h.register, meeting the handler's send; the
\* handler goes on to start the initial-data goroutine, writePump and
\* readPump and returns
hubRegister(c) ==
    /\ panic = ""
    /\ hubRun.pc = "select"
    /\ ws[c].handler = "registering"
    /\ clients' = clients \cup {c}
    /\ ws' = [ws EXCEPT ![c] = [handler |-> "done", initial |-> "initial_logs",
                                writePump |-> "running",
                                readPump |-> "reading"]]
    /\ UNCHANGED <<send, broadcast, hubRun, poster, panic, apiKey, response,
                   deviceVars>>

\* The message the initial-data goroutine sends after the one at pc
afterInitial(pc) ==
    CASE pc = "initial_logs" -> "stats"
      [] pc = "stats"        -> "scanners"
      [] pc = "scanners"     -> "done"

\* One of the three blocks of the initial-data goroutine: when the query
\* and json.Marshal succeed (ok) the message is sent on client.send, a
\* blocking send that waits while the buffer is full and panics on a
\* closed channel
initialData(c, ok) ==
    /\ panic = ""
    /\ ws[c].initial \in {"initial_logs", "stats", "scanners"}
    /\ IF ~ok
       THEN /\ UNCHANGED <<send, panic>>
            /\ ws' = [ws EXCEPT ![c].initial = afterInitial(@)]
       ELSE IF send[c].closed
       THEN /\ panic' = "send on closed channel"
            /\ UNCHANGED <<send, ws>>
       ELSE /\ Len(send[c].buf) < SEND_CAP
            /\ send' = [send EXCEPT ![c].buf = Append(@, ws[c].initial)]
            /\ ws' = [ws EXCEPT ![c].initial = afterInitial(@)]
            /\ panic' = panic
    /\ UNCHANGED <<clients, broadcast, hubRun, poster, apiKey, response,
                   deviceVars>>

\* writePump: one round of for message := range c.send.  A buffered
\* message is received and written to the connection, and the pump returns
\* when the write fails (err); the pump returns when the channel is closed
\* and drained; it waits otherwise
writePump(c, err) ==
    /\ panic = ""
    /\ ws[c].writePump = "running"
    /\ IF send[c].buf # <<>>
       THEN /\ send' = [send EXCEPT ![c].buf = Tail(@)]
            /\ ws' = [ws EXCEPT ![c].writePump =
                                    IF err THEN "exited" ELSE "running"]
       ELSE /\ send[c].closed
            /\ ~err
            /\ send' = send
            /\ ws' = [ws EXCEPT ![c].writePump = "exited"]
    /\ UNCHANGED <<clients, broadcast, hubRun, poster, panic, apiKey,
                   response, deviceVars>>

\* readPump: ReadMessage fails (the peer went away, or writePump closed the
\* connection), the loop breaks and the deferred function waits to send the
\* client on hub.unregister
readPump(c) ==
    /\ panic = ""
    /\ ws[c].readPump = "reading"
    /\ ws' = [ws EXCEPT ![c].readPump = "unregistering"]
    /\ UNCHANGED <<clients, send, broadcast, hubRun, poster, panic, apiKey,
                   response, deviceVars>>

\* Hub.run, case client := <-h.unregister, meeting readPump's send: a
\* client still registered is deleted and its channel closed
hubUnregister(c) ==
    /\ panic = ""
    /\ hubRun.pc = "select"
    /\ ws[c].readPump = "unregistering"
    /\ IF c \in clients
       THEN /\ clients' = clients \ {c}
            /\ IF send[c].closed
               THEN panic' = "close of closed channel" /\ send' = send
               ELSE /\ send' = [send EXCEPT ![c].closed = TRUE]
                    /\ panic' = panic
       ELSE UNCHANGED <<clients, send, panic>>
    /\ ws' = [ws EXCEPT ![c].readPump = "exited"]
    /\ UNCHANGED <<broadcast, hubRun, poster, apiKey, response, deviceVars>>

\* Hub.run, case message := <-h.broadcast: the message is received and the
\* range over h.clients begins
hubBroadcast ==
    /\ panic = ""
    /\ hubRun.pc = "select"
    /\ broadcast # <<>>
    /\ broadcast' = Tail(broadcast)
    /\ hubRun' = IF clients = {} THEN HubSelect
                 ELSE [pc |-> "deliver", message |-> Head(broadcast),
                       todo |-> clients]
    /\ UNCHANGED <<clients, send, ws, poster, panic, apiKey, response,
                   deviceVars>>

\* Hub.run, one iteration of for client := range h.clients: the message is
\* sent on client.send when the buffer has room, and otherwise the channel
\* is closed and the client deleted; the range produces every client once,
\* in any order
hubDeliver(c) ==
    /\ panic = ""
    /\ hubRun.pc = "deliver"
    /\ c \in hubRun.todo
    /\ IF send[c].closed
       THEN panic' = "send on closed channel" /\ UNCHANGED <<send, clients>>
       ELSE IF Len(send[c].buf) < SEND_CAP
       THEN /\ send' = [send EXCEPT ![c].buf = Append(@, hubRun.message)]
            /\ UNCHANGED <<clients, panic>>
       ELSE /\ send' = [send EXCEPT ![c].closed = TRUE]
            /\ clients' = clients \ {c}
            /\ panic' = panic
    /\ hubRun' = IF hubRun.todo = {c} THEN HubSelect
                 ELSE [hubRun EXCEPT !.todo = @ \ {c}]
    /\ UNCHANGED <<broadcast, ws, poster, apiKey, response, deviceVars>>

\* HandlePostLogs with count > 0, for a batch of scanner i: the goroutine
\* that broadcasts the batch is started
HandlePostLogs(i) ==
    /\ panic = ""
    /\ poster[i].pc = "idle"
    /\ poster' = [poster EXCEPT ![i] = [pc |-> "new_logs", dropped |-> FALSE]]
    /\ UNCHANGED <<clients, send, broadcast, hubRun, ws, panic, apiKey,
                   response, deviceVars>>

\* select { case hub.broadcast <- data: default: }: what hub.broadcast holds
\* afterwards
offer(data) ==
    IF Len(broadcast) < BROADCAST_CAP THEN Append(broadcast, data)
    ELSE broadcast

\* BroadcastNewLogs, called by the goroutine of i's batch, which then reads
\* the statistics (statsOk: GetStats succeeded)
BroadcastNewLogs(i, statsOk) ==
    /\ panic = ""
    /\ poster[i].pc = "new_logs"
    /\ broadcast' = offer("new_logs")
    /\ poster' = [poster EXCEPT
                    ![i].pc = IF statsOk THEN "stats" ELSE "idle",
                    ![i].dropped = @ \/ Len(broadcast) >= BROADCAST_CAP]
    /\ UNCHANGED <<clients, send, hubRun, ws, panic, apiKey, response,
                   deviceVars>>

\* BroadcastStats, called by the goroutine of i's batch
BroadcastStats(i) ==
    /\ panic = ""
    /\ poster[i].pc = "stats"
    /\ broadcast' = offer("stats")
    /\ poster' = [poster EXCEPT
                    ![i].pc = "idle",
                    ![i].dropped = @ \/ Len(broadcast) >= BROADCAST_CAP]
    /\ UNCHANGED <<clients, send, hubRun, ws, panic, apiKey, response,
                   deviceVars>>

(***************************************************************************)
(* SpecHub: the server with its hub running, two WebSocket connections     *)
(* and a scanner posting batches, every goroutine scheduled at any time.   *)
(***************************************************************************)

InitHubServer ==
    /\ InitDevice({"CYD"}, {StoredFile("absent", <<>>)}, {0})
    /\ InitServer

NextHub ==
    \/ \E c \in Clients : HandleWebSocket(c)
    \/ \E c \in Clients : hubRegister(c)
    \/ \E c \in Clients, ok \in BOOLEAN : initialData(c, ok)
    \/ \E c \in Clients, err \in BOOLEAN : writePump(c, err)
    \/ \E c \in Clients : readPump(c)
    \/ \E c \in Clients : hubUnregister(c)
    \/ hubBroadcast
    \/ \E c \in Clients : hubDeliver(c)
    \/ \E i \in PostIds : HandlePostLogs(i)
    \/ \E i \in PostIds, statsOk \in BOOLEAN : BroadcastNewLogs(i, statsOk)
    \/ \E i \in PostIds : BroadcastStats(i)

SpecHub == InitHubServer /\ [][NextHub]_vars

\* C36: the server never closes a client's send channel twice (the second
\* close is the run-time panic "close of closed channel"), in every
\* interleaving of readPump's unregistration with the hub dropping a client
\* whose buffer was full; and a client whose channel is closed is not in
\* hub.clients
SendClosedAtMostOnce ==
    /\ panic # "close of closed channel"
    /\ \A c \in Clients : send[c].closed => c \notin clients

\* C36 witness: a client was dropped by the hub with its buffer full, its
\* readPump has since failed and waits to unregister it, and the hub is
\* ready to receive the unregistration
UnregisteringAfterDrop ==
    \E c \in Clients :
        /\ send[c].closed
        /\ c \notin clients
        /\ ws[c].readPump = "unregistering"
        /\ hubRun.pc = "select"
        /\ panic = ""

\* C37: no goroutine sends on a client's send channel after the channel
\* was closed (the send is the run-time panic "send on closed channel"):
\* every send of the initial-data goroutine precedes the hub's close
NoSendOnClosedChannel ==
    panic # "send on closed channel"

\* A client's send buffer is full
Full(c) == Len(send[c].buf) >= SEND_CAP

\* The goroutine of scanner i's batch is about to broadcast
Broadcasting(i) == panic = "" /\ poster[i].pc \in {"new_logs", "stats"}

\* The broadcast of scanner i's goroutine is a step the goroutine can take
\* at once, whatever hub.broadcast holds
BroadcastDoesNotWait ==
    \A i \in PostIds :
        /\ (panic = "" /\ poster[i].pc = "new_logs")
              => ENABLED BroadcastNewLogs(i, TRUE)
        /\ (panic = "" /\ poster[i].pc = "stats")
              => ENABLED BroadcastStats(i)

\* A broadcast puts its message last in hub.broadcast when the channel has
\* room and leaves the channel as it is, dropping the message, when it is
\* full
BroadcastQueuesOrDrops ==
    \A i \in PostIds :
        (Broadcasting(i) /\ poster'[i] # poster[i]) =>
            /\ Len(broadcast) < BROADCAST_CAP
                  => broadcast' = Append(broadcast, poster[i].pc)
            /\ Len(broadcast) >= BROADCAST_CAP
                  => /\ broadcast' = broadcast
                     /\ poster'[i].dropped
            /\ UNCHANGED <<clients, send, hubRun>>

\* One iteration of the hub's delivery deals with one client the range has
\* not produced yet: a client whose buffer is full is closed and removed
\* from hub.clients, any other gets the message appended once and stays;
\* no other client is touched
DeliveryDropsSlowAndEnqueuesOnce ==
    (panic = "" /\ hubRun.pc = "deliver" /\ hubRun' # hubRun) =>
        \E c \in hubRun.todo :
            /\ hubRun' = IF hubRun.todo = {c} THEN HubSelect
                         ELSE [hubRun EXCEPT !.todo = @ \ {c}]
            /\ Full(c) => /\ c \notin clients'
                          /\ send'[c] = [send[c] EXCEPT !.closed = TRUE]
            /\ ~Full(c) => /\ c \in clients'
                           /\ send'[c] = [send[c] EXCEPT
                                            !.buf = Append(@, hubRun.message)]
            /\ \A d \in Clients \ {c} :
                  /\ send'[d] = send[d]
                  /\ d \in clients' <=> d \in clients
            /\ panic' = ""

\* The delivery starts with every registered client to be produced, and
\* the clients still to be produced are registered clients with open
\* channels
DeliveryCoversRegistered ==
    /\ (hubRun.pc = "select" /\ hubRun'.pc = "deliver")
          => /\ hubRun'.todo = clients
             /\ hubRun'.message = Head(broadcast)
    /\ hubRun'.pc = "deliver"
          => /\ hubRun'.todo # {}
             /\ hubRun'.todo \subseteq clients'
             /\ \A c \in hubRun'.todo : ~send'[c].closed

\* C38: broadcasting never waits for a slow consumer: BroadcastNewLogs and
\* BroadcastStats drop their message when hub.broadcast is full, and when
\* the hub delivers a message a client whose send buffer is full is removed
\* from hub.clients while every other registered client has the message
\* enqueued exactly once
BroadcastNeverBlocksOnSlowConsumer ==
    /\ []BroadcastDoesNotWait
    /\ [][BroadcastQueuesOrDrops]_vars
    /\ [][DeliveryDropsSlowAndEnqueuesOnce]_vars
    /\ [][DeliveryCoversRegistered]_vars

\* C38 witness: a batch lost a message to a full hub.broadcast, and a
\* delivery removed a client whose buffer was full (its channel is closed
\* though its readPump never unregistered it) while the other client,
\* still registered, holds the delivered message
SlowClientDroppedOtherServed ==
    \E c, d \in Clients, i \in PostIds :
        /\ c # d
        /\ send[c].closed
        /\ c \notin clients
        /\ ws[c].readPump = "reading"
        /\ d \in clients
        /\ send[d].buf = <<"new_logs">>
        /\ poster[i].dropped
        /\ panic = ""

====
